---------------------------- MODULE Spec2Model ----------------------------
(***************************************************************************)
(* Crate Geometry Derivation Engine (NX Crate Expression Generator).       *)
(*                                                                         *)
(* Lengths and weights are fixed-point numbers: one unit is 0.0001 (one    *)
(* ten-thousandth of an inch, or of a pound), so the tolerance 0.001 of    *)
(* the floorboard solver is 10 units and the tolerance 0.0001 of the skid  *)
(* solver is 1 unit.  Quotients that need not be a whole number of units   *)
(* (skid pitch and the positions derived from it) are exact rationals      *)
(* [num, den].                                                             *)
(***************************************************************************)
EXTENDS Integers, Sequences, FiniteSets, TLC

VARIABLES
    variant,            \* which orchestrator runs: "current" (src/) or "legacy6"
    inputs,             \* inputs[r]: the request dictionary of run r
    output_filename,    \* output_filename[r]
    pc,                 \* pc[r]: position of run r inside generate_crate_expressions
    skid_params,        \* skid_params[r]: SkidParameters of run r
    floorboard_params,  \* floorboard_params[r]: FloorboardParameters of run r
    panel_params,       \* panel_params[r]: PanelParameters of run r
    crate_od,           \* crate_od[r]: crate_overall_width_od_in / _length_od_in
    result,             \* result[r]: the (success, message) pair returned
    calls,              \* calls[r]: the solvers and generator run r has invoked
    fs,                 \* file system: file name -> content
    clock,              \* wall clock read by datetime.datetime.now()
    args,               \* arguments of a direct call of one solver
    ret                 \* what that call returned

vars == <<variant, inputs, output_filename, pc, skid_params, floorboard_params,
          panel_params, crate_od, result, calls, fs, clock, args, ret>>

orch_vars == <<variant, inputs, output_filename, pc, skid_params,
               floorboard_params, panel_params, crate_od, result, calls, fs,
               clock>>

-----------------------------------------------------------------------------
(* Numbers *)

\* i whole units and f ten-thousandths: In(11, 2500) is 11.25
In(i, f) == i * 10000 + f

Abs(x) == IF x < 0 THEN -x ELSE x

Max(a, b) == IF a >= b THEN a ELSE b

RECURSIVE GCD(_, _)
GCD(a, b) == IF b = 0 THEN a ELSE GCD(b, a % b)

\* the rational n/d in lowest terms with a positive denominator
Rat(n, d) ==
    LET g == GCD(Abs(n), Abs(d))
        s == IF d < 0 THEN -1 ELSE 1
    IN  [num |-> s * (n \div g), den |-> s * (d \div g)]

RatInt(n) == [num |-> n, den |-> 1]
RatAdd(a, b) == Rat(a.num * b.den + b.num * a.den, a.den * b.den)
RatNeg(a) == [num |-> -a.num, den |-> a.den]
RatSub(a, b) == RatAdd(a, RatNeg(b))
RatMulInt(a, k) == Rat(a.num * k, a.den)
RatDivInt(a, k) == Rat(a.num, a.den * k)
RatAbs(a) == [num |-> Abs(a.num), den |-> a.den]
RatLE(a, b) == a.num * b.den <= b.num * a.den
RatLT(a, b) == a.num * b.den < b.num * a.den

\* math.ceil(a / b) for b > 0
CeilDiv(a, b) == IF a % b = 0 THEN a \div b ELSE (a \div b) + 1

None == [none |-> TRUE]

-----------------------------------------------------------------------------
(* skid_logic.py *)

\* the brackets with their upper ends inclusive: 500 still light, 4500 still 4x4
select_skid_lumber_inclusive(product_weight_lbs, allow_3x4_skids_bool) ==
    IF allow_3x4_skids_bool /\ product_weight_lbs <= In(500, 0)
    THEN [actual_height_in |-> In(3, 5000), actual_width_in |-> In(2, 5000),
          lumber_callout |-> "3x4 (oriented for 3.5 H)",
          max_spacing_rule_in |-> In(30, 0)]
    ELSE IF product_weight_lbs <= In(4500, 0)
    THEN [actual_height_in |-> In(3, 5000), actual_width_in |-> In(3, 5000),
          lumber_callout |-> "4x4",
          max_spacing_rule_in |-> In(30, 0)]
    ELSE IF product_weight_lbs <= In(20000, 0)
    THEN [actual_height_in |-> In(3, 5000), actual_width_in |-> In(5, 5000),
          lumber_callout |-> "4x6",
          max_spacing_rule_in |-> In(24, 0)]
    ELSE [actual_height_in |-> In(3, 5000), actual_width_in |-> In(5, 5000),
          lumber_callout |-> "4x6 (defaulted)",
          max_spacing_rule_in |-> In(24, 0)]

\* weight bracket -> skid lumber (skid_logic.py 40-62)
select_skid_lumber(product_weight_lbs, allow_3x4_skids_bool) ==
    LET use_3x4_for_light_load ==
            allow_3x4_skids_bool /\ product_weight_lbs < In(500, 0)
    IN  IF use_3x4_for_light_load
        THEN [actual_height_in |-> In(3, 5000), actual_width_in |-> In(2, 5000),
              lumber_callout |-> "3x4 (oriented for 3.5 H)",
              max_spacing_rule_in |-> In(30, 0)]
        ELSE IF product_weight_lbs < In(4500, 0)
        THEN [actual_height_in |-> In(3, 5000), actual_width_in |-> In(3, 5000),
              lumber_callout |-> "4x4",
              max_spacing_rule_in |-> In(30, 0)]
        ELSE IF In(4500, 0) <= product_weight_lbs /\ product_weight_lbs <= In(20000, 0)
        THEN [actual_height_in |-> In(3, 5000), actual_width_in |-> In(5, 5000),
              lumber_callout |-> "4x6",
              max_spacing_rule_in |-> In(24, 0)]
        ELSE [actual_height_in |-> In(3, 5000), actual_width_in |-> In(5, 5000),
              lumber_callout |-> "4x6 (defaulted)",
              max_spacing_rule_in |-> In(24, 0)]

\* the single-skid test, with the strict comparison a slip would give
is_single_skid_strict(crate_overall_width_od_in, skid_actual_width_in) ==
    crate_overall_width_od_in < skid_actual_width_in

\* skid_logic.py 69: crate_overall_width_od_in <= skid_actual_width_in + 0.0001
is_single_skid(crate_overall_width_od_in, skid_actual_width_in) ==
    crate_overall_width_od_in <= skid_actual_width_in + 1

\* the count of the multiple-skid branch without the "+ 1"
calc_skid_count_no_plus_one(crate_overall_width_od_in, skid_actual_width_in, max_skid_spacing_rule_in) ==
    Max(2, CeilDiv(crate_overall_width_od_in - skid_actual_width_in,
                   max_skid_spacing_rule_in))

\* the count with the quotient rounded down, not up
calc_skid_count_floor(crate_overall_width_od_in, skid_actual_width_in, max_skid_spacing_rule_in) ==
    Max(2, ((crate_overall_width_od_in - skid_actual_width_in)
                \div max_skid_spacing_rule_in) + 1)

\* skid_logic.py 76-80 (multiple-skid branch)
calc_skid_count(crate_overall_width_od_in, skid_actual_width_in, max_skid_spacing_rule_in) ==
    LET n == CeilDiv(crate_overall_width_od_in - skid_actual_width_in,
                     max_skid_spacing_rule_in) + 1
    IN  IF n < 2 THEN 2 ELSE n

\* the pitch with the span divided among count skids, not count - 1 intervals
calc_skid_pitch_in_by_count(crate_overall_width_od_in, skid_actual_width_in, count) ==
    IF count > 1
    THEN Rat(crate_overall_width_od_in - skid_actual_width_in, count)
    ELSE RatInt(0)

\* the pitch with the skid width not taken off the crate width
calc_skid_pitch_in_full_width(crate_overall_width_od_in, skid_actual_width_in, count) ==
    IF count > 1
    THEN Rat(crate_overall_width_od_in, count - 1)
    ELSE RatInt(0)

\* skid_logic.py 82-85
calc_skid_pitch_in(crate_overall_width_od_in, skid_actual_width_in, count) ==
    IF count > 1
    THEN Rat(crate_overall_width_od_in - skid_actual_width_in, count - 1)
    ELSE RatInt(0)

\* the first skid position with the halving left out
calc_first_skid_pos_x_in_no_half(count, pitch_in) ==
    RatNeg(RatMulInt(pitch_in, count - 1))

\* skid_logic.py 88-89
calc_first_skid_pos_x_in(count, pitch_in) ==
    LET total_centerline_span == RatMulInt(pitch_in, count - 1)
    IN  RatDivInt(RatNeg(total_centerline_span), 2)

\* skid_logic.py 20-104
calculate_skid_parameters(product_weight_lbs, product_length_in, product_width_in, clearance_each_side_in, allow_3x4_skids_bool) ==
    LET lumber == select_skid_lumber(product_weight_lbs, allow_3x4_skids_bool)
        skid_actual_width_in == lumber.actual_width_in
        skid_model_length_in == product_length_in + (2 * clearance_each_side_in)
        crate_overall_width_od_in == product_width_in + (2 * clearance_each_side_in)
        single == is_single_skid(crate_overall_width_od_in, skid_actual_width_in)
        calc_count ==
            IF single THEN 1
            ELSE calc_skid_count(crate_overall_width_od_in, skid_actual_width_in,
                                 lumber.max_spacing_rule_in)
        calc_pitch ==
            IF single THEN RatInt(0)
            ELSE calc_skid_pitch_in(crate_overall_width_od_in,
                                    skid_actual_width_in, calc_count)
        calc_first ==
            IF single THEN RatInt(0)
            ELSE calc_first_skid_pos_x_in(calc_count, calc_pitch)
        x_master_skid_origin_offset_in ==
            RatSub(calc_first, Rat(skid_actual_width_in, 2))
    IN  [actual_height_in |-> lumber.actual_height_in,
         actual_width_in |-> skid_actual_width_in,
         lumber_callout |-> lumber.lumber_callout,
         max_spacing_rule_in |-> lumber.max_spacing_rule_in,
         model_length_in |-> skid_model_length_in,
         count |-> calc_count,
         pitch_in |-> calc_pitch,
         first_pos_x_in |-> calc_first,
         master_origin_offset_in |-> x_master_skid_origin_offset_in]

-----------------------------------------------------------------------------
(* floorboard_logic.py *)

RECURSIVE SumSeq(_)
SumSeq(s) == IF s = <<>> THEN 0 ELSE Head(s) + SumSeq(Tail(s))

RECURSIVE InsertDesc(_, _)
InsertDesc(x, s) ==
    IF s = <<>> THEN <<x>>
    ELSE IF x >= Head(s) THEN <<x>> \o s
    ELSE <<Head(s)>> \o InsertDesc(x, Tail(s))

\* sorted(selected_std_lumber_widths, reverse=True), floorboard_logic.py 62
RECURSIVE sorted_std_lumber_widths_available(_)
sorted_std_lumber_widths_available(selected_std_lumber_widths) ==
    IF selected_std_lumber_widths = <<>> THEN <<>>
    ELSE InsertDesc(Head(selected_std_lumber_widths),
                    sorted_std_lumber_widths_available(Tail(selected_std_lumber_widths)))

\* the scan without its break: the last (smallest) width that fits, else 0
RECURSIVE best_fit_std_no_break(_, _)
best_fit_std_no_break(sorted_widths, y_remaining_for_lumber) ==
    IF sorted_widths = <<>> THEN 0
    ELSE LET later == best_fit_std_no_break(Tail(sorted_widths), y_remaining_for_lumber)
         IN  IF later # 0 THEN later
             ELSE IF Head(sorted_widths) <= y_remaining_for_lumber + 10
             THEN Head(sorted_widths)
             ELSE 0

\* the scan with a fit tolerance of half an inch, not 0.001
RECURSIVE best_fit_std_half_inch_tolerance(_, _)
best_fit_std_half_inch_tolerance(sorted_widths, y_remaining_for_lumber) ==
    IF sorted_widths = <<>> THEN 0
    ELSE IF Head(sorted_widths) <= y_remaining_for_lumber + In(0, 5000)
    THEN Head(sorted_widths)
    ELSE best_fit_std_half_inch_tolerance(Tail(sorted_widths), y_remaining_for_lumber)

\* the scan of floorboard_logic.py 70-74: the first width that fits, else 0
RECURSIVE best_fit_std(_, _)
best_fit_std(sorted_widths, y_remaining_for_lumber) ==
    IF sorted_widths = <<>> THEN 0
    ELSE IF Head(sorted_widths) <= y_remaining_for_lumber + 10
    THEN Head(sorted_widths)
    ELSE best_fit_std(Tail(sorted_widths), y_remaining_for_lumber)

\* the while loop of floorboard_logic.py 69-81
RECURSIVE fill_with_standard_lumber(_, _, _, _)
fill_with_standard_lumber(sorted_widths, all_lumber_pieces, y_covered_by_lumber, y_remaining_for_lumber) ==
    LET best == best_fit_std(sorted_widths, y_remaining_for_lumber)
    IN  IF best > 0
        THEN fill_with_standard_lumber(sorted_widths,
                                       Append(all_lumber_pieces, best),
                                       y_covered_by_lumber + best,
                                       y_remaining_for_lumber - best)
        ELSE [all_lumber_pieces |-> all_lumber_pieces,
              y_covered_by_lumber |-> y_covered_by_lumber,
              y_remaining_for_lumber |-> y_remaining_for_lumber]

\* floorboard_logic.py 84-102 with the uncovered leftover reported as the gap
handle_remaining_reporting_leftover(y_remaining_for_lumber, force_small_custom_board_bool, min_forceable_custom_board_width, min_custom_lumber_width_in, max_allowable_middle_gap_in) ==
    IF force_small_custom_board_bool
       /\ min_forceable_custom_board_width - 10 <= y_remaining_for_lumber
       /\ y_remaining_for_lumber < min_custom_lumber_width_in + 10
    THEN [center_custom_board_width |-> y_remaining_for_lumber, actual_middle_gap |-> 0, appended |-> TRUE]
    ELSE IF y_remaining_for_lumber >= min_custom_lumber_width_in - 10
    THEN [center_custom_board_width |-> y_remaining_for_lumber, actual_middle_gap |-> 0, appended |-> TRUE]
    ELSE [center_custom_board_width |-> 0, actual_middle_gap |-> y_remaining_for_lumber, appended |-> FALSE]

\* floorboard_logic.py 84-102 with the gap branch tried before the forced board
handle_remaining_gap_first(y_remaining_for_lumber, force_small_custom_board_bool, min_forceable_custom_board_width, min_custom_lumber_width_in, max_allowable_middle_gap_in) ==
    IF 10 < y_remaining_for_lumber
       /\ y_remaining_for_lumber <= max_allowable_middle_gap_in + 10
       /\ y_remaining_for_lumber < min_custom_lumber_width_in - 10
    THEN [center_custom_board_width |-> 0, actual_middle_gap |-> y_remaining_for_lumber, appended |-> FALSE]
    ELSE IF force_small_custom_board_bool
            /\ min_forceable_custom_board_width - 10 <= y_remaining_for_lumber
            /\ y_remaining_for_lumber < min_custom_lumber_width_in + 10
    THEN [center_custom_board_width |-> y_remaining_for_lumber, actual_middle_gap |-> 0, appended |-> TRUE]
    ELSE IF y_remaining_for_lumber >= min_custom_lumber_width_in - 10
    THEN [center_custom_board_width |-> y_remaining_for_lumber, actual_middle_gap |-> 0, appended |-> TRUE]
    ELSE [center_custom_board_width |-> 0, actual_middle_gap |-> 0, appended |-> FALSE]

\* floorboard_logic.py 84-102: custom board, gap, or neither
handle_remaining(y_remaining_for_lumber, force_small_custom_board_bool, min_forceable_custom_board_width, min_custom_lumber_width_in, max_allowable_middle_gap_in) ==
    IF force_small_custom_board_bool
       /\ min_forceable_custom_board_width - 10 <= y_remaining_for_lumber
       /\ y_remaining_for_lumber < min_custom_lumber_width_in + 10
    THEN [center_custom_board_width |-> y_remaining_for_lumber, actual_middle_gap |-> 0, appended |-> TRUE]
    ELSE IF y_remaining_for_lumber >= min_custom_lumber_width_in - 10
    THEN [center_custom_board_width |-> y_remaining_for_lumber, actual_middle_gap |-> 0, appended |-> TRUE]
    ELSE IF 10 < y_remaining_for_lumber
            /\ y_remaining_for_lumber <= max_allowable_middle_gap_in + 10
    THEN [center_custom_board_width |-> 0, actual_middle_gap |-> y_remaining_for_lumber, appended |-> FALSE]
    ELSE [center_custom_board_width |-> 0, actual_middle_gap |-> 0, appended |-> FALSE]

\* the gap recomputed from the standard boards only, the custom board not counted
recalculate_gap_without_custom(center_custom_board_width, actual_middle_gap, fb_usable_coverage_y_in, y_covered_by_lumber, max_allowable_middle_gap_in) ==
    IF center_custom_board_width > 10
    THEN LET g == fb_usable_coverage_y_in - y_covered_by_lumber + center_custom_board_width
         IN  IF ~(10 < g /\ g <= max_allowable_middle_gap_in + 10) THEN 0 ELSE g
    ELSE actual_middle_gap

\* floorboard_logic.py 105-108: the gap recomputed when a custom board was added
recalculate_gap(center_custom_board_width, actual_middle_gap, fb_usable_coverage_y_in, y_covered_by_lumber, max_allowable_middle_gap_in) ==
    IF center_custom_board_width > 10
    THEN LET g == fb_usable_coverage_y_in - y_covered_by_lumber
         IN  IF ~(10 < g /\ g <= max_allowable_middle_gap_in + 10) THEN 0 ELSE g
    ELSE actual_middle_gap

\* the gap placed after the board at index floor(n/2) - 1
gap_insertion_index_floor(num_lumber_pieces_for_layout, actual_middle_gap) ==
    IF actual_middle_gap > 10 THEN (num_lumber_pieces_for_layout \div 2) - 1 ELSE -1

\* floorboard_logic.py 116-117
gap_insertion_index(num_lumber_pieces_for_layout, actual_middle_gap) ==
    IF actual_middle_gap > 10 THEN CeilDiv(num_lumber_pieces_for_layout, 2) - 1 ELSE -1

\* the layout loop of floorboard_logic.py 119-127, from board i (0-based) on
RECURSIVE layout_boards(_, _, _, _, _, _)
layout_boards(all_lumber_pieces, i, current_y_pos, gap_index, actual_middle_gap, center_custom_board_width) ==
    IF i >= Len(all_lumber_pieces) THEN <<>>
    ELSE LET board_w_val == all_lumber_pieces[i + 1]
             after == current_y_pos + board_w_val
             next_y == IF i = gap_index /\ actual_middle_gap > 10
                          /\ center_custom_board_width <= 10
                       THEN after + actual_middle_gap
                       ELSE after
         IN  <<[width |-> board_w_val, y_pos |-> current_y_pos]>>
             \o layout_boards(all_lumber_pieces, i + 1, next_y, gap_index,
                              actual_middle_gap, center_custom_board_width)

\* floorboard_logic.py 22-136
calculate_floorboard_parameters(crate_overall_width_od_in, skid_model_length_in, panel_thickness_in, cleat_thickness_in, floorboard_actual_thickness_in, selected_std_lumber_widths, max_allowable_middle_gap_in, min_custom_lumber_width_in, force_small_custom_board_bool, min_forceable_custom_board_width) ==
    LET cap_end_gap_each_side == panel_thickness_in + cleat_thickness_in
        fb_usable_coverage_y_in == skid_model_length_in - (2 * cap_end_gap_each_side)
        fb_initial_start_y_offset_abs == cap_end_gap_each_side
        sorted_widths == sorted_std_lumber_widths_available(selected_std_lumber_widths)
        filled == fill_with_standard_lumber(sorted_widths, <<>>, 0, fb_usable_coverage_y_in)
        handled == handle_remaining(filled.y_remaining_for_lumber,
                                    force_small_custom_board_bool,
                                    min_forceable_custom_board_width,
                                    min_custom_lumber_width_in,
                                    max_allowable_middle_gap_in)
        \* both custom-board branches append the board, whatever its width
        custom_appended == handled.appended
        center_custom_board_width == handled.center_custom_board_width
        all_lumber_pieces ==
            IF custom_appended
            THEN Append(filled.all_lumber_pieces, center_custom_board_width)
            ELSE filled.all_lumber_pieces
        y_covered_by_lumber ==
            IF custom_appended
            THEN filled.y_covered_by_lumber + center_custom_board_width
            ELSE filled.y_covered_by_lumber
        actual_middle_gap ==
            recalculate_gap(center_custom_board_width, handled.actual_middle_gap,
                            fb_usable_coverage_y_in, y_covered_by_lumber,
                            max_allowable_middle_gap_in)
        gap_index == gap_insertion_index(Len(all_lumber_pieces), actual_middle_gap)
    IN  [actual_length_in |-> crate_overall_width_od_in,
         actual_thickness_in |-> floorboard_actual_thickness_in,
         actual_middle_gap |-> actual_middle_gap,
         center_custom_board_width |-> center_custom_board_width,
         initial_start_y_offset_abs |-> fb_initial_start_y_offset_abs,
         floorboards_data |-> layout_boards(all_lumber_pieces, 0,
                                            fb_initial_start_y_offset_abs, gap_index,
                                            actual_middle_gap, center_custom_board_width)]

-----------------------------------------------------------------------------
(* panel_logic.py *)

\* the end panel shortened by the front panel only
end_panel_calc_length_front_only(crate_overall_length_od_in, front_panel_calc_depth, back_panel_calc_depth) ==
    crate_overall_length_od_in - front_panel_calc_depth

\* panel_logic.py 79: end panels are sandwiched between front and back
end_panel_calc_length(crate_overall_length_od_in, front_panel_calc_depth, back_panel_calc_depth) ==
    crate_overall_length_od_in - front_panel_calc_depth - back_panel_calc_depth

\* panel_logic.py 82: front/back panel width covers the end panels
front_panel_calc_width(crate_overall_width_od_in, end_panel_calc_depth) ==
    crate_overall_width_od_in + (2 * end_panel_calc_depth)

\* panel_logic.py 65-70: front/back panels go all the way to ground
front_panel_calc_height(product_actual_height_in, clearance_above_product_in, floorboard_actual_thickness_in, skid_actual_height_in, ground_clearance_in, panel_assembly_overall_thickness) ==
    product_actual_height_in + clearance_above_product_in
    + floorboard_actual_thickness_in + skid_actual_height_in
    + ground_clearance_in + panel_assembly_overall_thickness

\* panel_logic.py 75: end panels sit on skids
end_panel_calc_height(front_height, ground_clearance_in, skid_actual_height_in) ==
    front_height - ground_clearance_in + skid_actual_height_in

\* panel_logic.py 27-104
calculate_panel_parameters(crate_overall_width_od_in, crate_overall_length_od_in, panel_thickness_in, cleat_thickness_in, product_actual_height_in, clearance_above_product_in, floorboard_actual_thickness_in, skid_actual_height_in, ground_clearance_in) ==
    LET panel_assembly_overall_thickness == panel_thickness_in + cleat_thickness_in
        front_depth == panel_assembly_overall_thickness
        back_depth == panel_assembly_overall_thickness
        end_depth == panel_assembly_overall_thickness
        front_height ==
            front_panel_calc_height(product_actual_height_in, clearance_above_product_in,
                                    floorboard_actual_thickness_in, skid_actual_height_in,
                                    ground_clearance_in, panel_assembly_overall_thickness)
        front_width == front_panel_calc_width(crate_overall_width_od_in, end_depth)
    IN  [assembly_overall_thickness |-> panel_assembly_overall_thickness,
         front_calc_width |-> front_width,
         front_calc_height |-> front_height,
         front_calc_depth |-> front_depth,
         back_calc_width |-> front_width,
         back_calc_height |-> front_height,
         back_calc_depth |-> back_depth,
         end_calc_length |-> end_panel_calc_length(crate_overall_length_od_in,
                                                   front_depth, back_depth),
         end_calc_height |-> end_panel_calc_height(front_height, ground_clearance_in,
                                                   skid_actual_height_in),
         end_calc_depth |-> end_depth,
         top_calc_width |-> front_width,
         top_calc_length |-> crate_overall_length_od_in,
         top_calc_depth |-> panel_assembly_overall_thickness]

-----------------------------------------------------------------------------
(* legacy/8 all side panels/front_panel_logic.py: the basic 4-component model *)

\* the vertical cleat shortened by one horizontal cleat only
vertical_cleat_length_one_cleat(front_panel_assembly_height, cleat_material_member_width) ==
    Max(0, front_panel_assembly_height - cleat_material_member_width)

\* front_panel_logic.py 37-43: fits between the horizontal cleats, not negative
vertical_cleat_length(front_panel_assembly_height, cleat_material_member_width) ==
    LET len == front_panel_assembly_height - (2 * cleat_material_member_width)
    IN  IF len < 0 THEN 0 ELSE len

\* front_panel_logic.py 1-65
calculate_front_panel_components(front_panel_assembly_width, front_panel_assembly_height, panel_sheathing_thickness, cleat_material_thickness, cleat_material_member_width) ==
    [plywood |-> [width |-> front_panel_assembly_width,
                  height |-> front_panel_assembly_height,
                  thickness |-> panel_sheathing_thickness],
     horizontal_cleats |-> [length |-> front_panel_assembly_width,
                            material_thickness |-> cleat_material_thickness,
                            material_member_width |-> cleat_material_member_width,
                            count |-> 2],
     vertical_cleats |-> [length |-> vertical_cleat_length(front_panel_assembly_height,
                                                           cleat_material_member_width),
                          material_thickness |-> cleat_material_thickness,
                          material_member_width |-> cleat_material_member_width,
                          count |-> 2]]

-----------------------------------------------------------------------------
(* current/end_panel_logic.py: the end panel components *)

\* the horizontal cleat length without the clamp
end_panel_horizontal_cleat_length_unclamped(end_panel_assembly_face_width, cleat_material_member_width) ==
    end_panel_assembly_face_width - (2 * cleat_material_member_width)

\* end_panel_logic.py 37-43: fits between the vertical cleats, not negative
end_panel_horizontal_cleat_length(end_panel_assembly_face_width, cleat_material_member_width) ==
    LET len == end_panel_assembly_face_width - (2 * cleat_material_member_width)
    IN  IF len < 0 THEN 0 ELSE len

\* end_panel_logic.py 1-64
calculate_end_panel_components(end_panel_assembly_face_width, end_panel_assembly_height, panel_sheathing_thickness, cleat_material_thickness, cleat_material_member_width) ==
    [plywood |-> [width |-> end_panel_assembly_face_width,
                  height |-> end_panel_assembly_height,
                  thickness |-> panel_sheathing_thickness],
     vertical_cleats |-> [length |-> end_panel_assembly_height,
                          material_thickness |-> cleat_material_thickness,
                          material_member_width |-> cleat_material_member_width,
                          count |-> 2],
     horizontal_cleats |-> [length |-> end_panel_horizontal_cleat_length(
                                           end_panel_assembly_face_width,
                                           cleat_material_member_width),
                            material_thickness |-> cleat_material_thickness,
                            material_member_width |-> cleat_material_member_width,
                            count |-> 2]]

-----------------------------------------------------------------------------
(* current/back_panel_logic.py and legacy/9 .../top_panel_logic.py *)

\* back_panel_logic.py 3-31: the front panel calculation, reused
calculate_back_panel_components(back_panel_assembly_width, back_panel_assembly_height, panel_sheathing_thickness, cleat_material_thickness, cleat_material_member_width) ==
    calculate_front_panel_components(back_panel_assembly_width,
                                     back_panel_assembly_height,
                                     panel_sheathing_thickness,
                                     cleat_material_thickness,
                                     cleat_material_member_width)

\* top_panel_logic.py 37-43: fits between the primary cleats, not negative
top_panel_secondary_cleat_length(top_panel_assembly_width, cleat_material_member_width) ==
    LET len == top_panel_assembly_width - (2 * cleat_material_member_width)
    IN  IF len < 0 THEN 0 ELSE len

\* top_panel_logic.py 1-65
calculate_top_panel_components(top_panel_assembly_width, top_panel_assembly_length, panel_sheathing_thickness, cleat_material_thickness, cleat_material_member_width) ==
    [plywood |-> [width |-> top_panel_assembly_width,
                  length |-> top_panel_assembly_length,
                  thickness |-> panel_sheathing_thickness],
     primary_cleats |-> [length |-> top_panel_assembly_length,
                         material_thickness |-> cleat_material_thickness,
                         material_member_width |-> cleat_material_member_width,
                         count |-> 2],
     secondary_cleats |-> [length |-> top_panel_secondary_cleat_length(
                                          top_panel_assembly_width,
                                          cleat_material_member_width),
                           material_thickness |-> cleat_material_thickness,
                           material_member_width |-> cleat_material_member_width,
                           count |-> 2]]

-----------------------------------------------------------------------------
(* legacy/6 panels not working/nx_generator.py: the extended front panel model *)

\* the count without the 1e-6: floor(open_span / 30)
inter_cleat_count_for_floor(open_span) == Max(0, open_span \div In(30, 0))

\* int((open_span - 1e-6) // 30), at least 0; open_span is a whole number of units
inter_cleat_count_for(open_span) == Max(0, (open_span - 1) \div In(30, 0))

\* nx_generator.py 146-173: front panel edge and intermediate cleats
front_panel_detail(fp_width, fp_height, cleat_actual_width_in) ==
    LET edge_cleat_width == cleat_actual_width_in
        edge_vert_cleat_len == fp_height - 2 * edge_cleat_width
        edge_horiz_cleat_len == fp_width - 2 * edge_cleat_width
        open_width == edge_horiz_cleat_len
        open_height == edge_vert_cleat_len
        edges == [fp_width |-> fp_width, fp_height |-> fp_height,
                  edge_vert_cleat_len |-> edge_vert_cleat_len,
                  edge_horiz_cleat_len |-> edge_horiz_cleat_len,
                  edge_cleat_width |-> edge_cleat_width]
        none == [inter_cleat_orientation |-> "NONE", inter_cleat_count |-> 0,
                 inter_cleat_pitch |-> RatInt(0), inter_cleat_length |-> 0]
        inter ==
            IF open_width >= In(24, 0)
            THEN LET n == inter_cleat_count_for(open_width)
                 IN  IF n > 0
                     THEN [inter_cleat_orientation |-> "VERTICAL",
                           inter_cleat_count |-> n,
                           inter_cleat_pitch |-> Rat(open_width, n + 1),
                           inter_cleat_length |-> fp_height - 2 * edge_cleat_width]
                     ELSE [none EXCEPT !.inter_cleat_orientation = "VERTICAL"]
            ELSE IF open_height >= In(24, 0)
            THEN LET n == inter_cleat_count_for(open_height)
                 IN  IF n > 0
                     THEN [inter_cleat_orientation |-> "HORIZONTAL",
                           inter_cleat_count |-> n,
                           inter_cleat_pitch |-> Rat(open_height, n + 1),
                           inter_cleat_length |-> fp_width - 2 * edge_cleat_width]
                     ELSE [none EXCEPT !.inter_cleat_orientation = "HORIZONTAL"]
            ELSE none
    IN  [edges |-> edges, inter |-> inter]

-----------------------------------------------------------------------------
(* nx_generator.py: the content of the expressions file *)

\* n/d rounded to the nearest integer, ties to even (d > 0)
RoundHalfEven(n, d) ==
    LET q == n \div d
        rem == n % d
    IN  IF 2 * rem < d THEN q
        ELSE IF 2 * rem > d THEN q + 1
        ELSE IF q % 2 = 0 THEN q ELSE q + 1

\* f"{x:.3f}": the decimal string with three places, as a number of thousandths.
\* Python rounds the binary value of x; every x of the requests below is a
\* multiple of 0.25, so no tie arises.
Fmt3(x) == RoundHalfEven(x, 10)

\* f"{x:.4f}" of a whole number of units: the number of ten-thousandths
Fmt4(x) == x

\* f"{x:.4f}" and f"{x:.3f}" of a quotient
Fmt4Rat(x) == RoundHalfEven(x.num, x.den)
Fmt3Rat(x) == RoundHalfEven(x.num, x.den * 10)

MAX_NX_FLOORBOARD_INSTANCES == 20

\* a floorboard instance slot whose unused form carries width 0, not the sentinel
floorboard_instance_zero_width(floorboards_data, instance_num) ==
    IF instance_num - 1 < Len(floorboards_data)
    THEN [Suppress_Flag |-> 0,
          Actual_Width |-> Fmt4(floorboards_data[instance_num].width),
          Y_Pos_Abs |-> Fmt4(floorboards_data[instance_num].y_pos)]
    ELSE [Suppress_Flag |-> 1, Actual_Width |-> 0, Y_Pos_Abs |-> 0]

\* nx_generator.py 97-107: one floorboard instance slot (instance_num is 1-based)
floorboard_instance(floorboards_data, instance_num) ==
    IF instance_num - 1 < Len(floorboards_data)
    THEN [Suppress_Flag |-> 0,
          Actual_Width |-> Fmt4(floorboards_data[instance_num].width),
          Y_Pos_Abs |-> Fmt4(floorboards_data[instance_num].y_pos)]
    ELSE [Suppress_Flag |-> 1, Actual_Width |-> 1, Y_Pos_Abs |-> 0]

\* the content without the "// Generated:" line
expressions_body(inp, skid, floor, panel, od) ==
    [product_weight |-> Fmt3(inp.product_weight_lbs),
     product_length_input |-> Fmt3(inp.product_length_in),
     product_width_input |-> Fmt3(inp.product_width_in),
     clearance_side_input |-> Fmt3(inp.clearance_each_side_in),
     BOOL_Allow_3x4_Skids_Input |-> IF inp.allow_3x4_skids_bool THEN 1 ELSE 0,
     INPUT_Panel_Thickness |-> Fmt3(inp.panel_thickness_in),
     INPUT_Cleat_Thickness |-> Fmt3(inp.cleat_thickness_in),
     INPUT_Product_Actual_Height |-> Fmt3(inp.product_actual_height_in),
     INPUT_Clearance_Above_Product |-> Fmt3(inp.clearance_above_product_in),
     INPUT_Ground_Clearance_End_Panels |-> Fmt3(inp.ground_clearance_in),
     BOOL_Force_Small_Custom_Floorboard |-> IF inp.force_small_custom_board_bool THEN 1 ELSE 0,
     INPUT_Floorboard_Actual_Thickness |-> Fmt3(inp.floorboard_actual_thickness_in),
     INPUT_Max_Allowable_Middle_Gap |-> Fmt3(inp.max_allowable_middle_gap_in),
     INPUT_Min_Custom_Lumber_Width |-> Fmt3(inp.min_custom_lumber_width_in),
     crate_overall_width_OD |-> Fmt3(od.crate_overall_width_od_in),
     crate_overall_length_OD |-> Fmt3(od.crate_overall_length_od_in),
     Skid_Lumber_Callout |-> skid.lumber_callout,
     Skid_Actual_Height |-> Fmt3(skid.actual_height_in),
     Skid_Actual_Width |-> Fmt3(skid.actual_width_in),
     Skid_Actual_Length |-> Fmt3(skid.model_length_in),
     CALC_Skid_Count |-> skid.count,
     CALC_Skid_Pitch |-> Fmt4Rat(skid.pitch_in),
     CALC_First_Skid_Pos_X |-> Fmt4Rat(skid.first_pos_x_in),
     X_Master_Skid_Origin_Offset |-> Fmt4Rat(skid.master_origin_offset_in),
     FB_Board_Actual_Length |-> Fmt3(floor.actual_length_in),
     FB_Board_Actual_Thickness |-> Fmt3(floor.actual_thickness_in),
     CALC_FB_Actual_Middle_Gap |-> Fmt4(floor.actual_middle_gap),
     CALC_FB_Center_Custom_Board_Width |->
         Fmt4(IF floor.center_custom_board_width > 10
              THEN floor.center_custom_board_width ELSE 0),
     CALC_FB_Start_Y_Offset_Abs |-> Fmt3(floor.initial_start_y_offset_abs),
     FB_Inst |-> [n \in 1..MAX_NX_FLOORBOARD_INSTANCES |->
                     floorboard_instance(floor.floorboards_data, n)],
     PANEL_Front_Calc_Width |-> Fmt3(panel.front_calc_width),
     PANEL_Front_Calc_Height |-> Fmt3(panel.front_calc_height),
     PANEL_Front_Calc_Depth |-> Fmt3(panel.front_calc_depth),
     PANEL_Back_Calc_Width |-> Fmt3(panel.back_calc_width),
     PANEL_Back_Calc_Height |-> Fmt3(panel.back_calc_height),
     PANEL_Back_Calc_Depth |-> Fmt3(panel.back_calc_depth),
     PANEL_End_Calc_Length |-> Fmt3(panel.end_calc_length),
     PANEL_End_Calc_Height |-> Fmt3(panel.end_calc_height),
     PANEL_End_Calc_Depth |-> Fmt3(panel.end_calc_depth),
     PANEL_Top_Calc_Width |-> Fmt3(panel.top_calc_width),
     PANEL_Top_Calc_Length |-> Fmt3(panel.top_calc_length),
     PANEL_Top_Calc_Depth |-> Fmt3(panel.top_calc_depth)]

\* nx_generator.py 50-125: expressions_content of the current generator
expressions_content(inp, skid, floor, panel, od, now) ==
    [Generated |-> now, body |-> expressions_body(inp, skid, floor, panel, od)]

\* legacy-6 nx_generator.py 52-218: the same body, the cleat width echoed, the
\* front panel detail and the cleat lengths added
expressions_content_legacy6(inp, skid, floor, panel, od, now) ==
    LET detail == front_panel_detail(panel.front_calc_width, panel.front_calc_height,
                                     inp.cleat_actual_width_in)
    IN  [Generated |-> now,
         body |-> expressions_body(inp, skid, floor, panel, od),
         INPUT_Cleat_Actual_Width |-> Fmt3(inp.cleat_actual_width_in),
         FP_Plywood_Width |-> Fmt3(detail.edges.fp_width),
         FP_Plywood_Height |-> Fmt3(detail.edges.fp_height),
         FP_Plywood_Thickness |-> Fmt3(inp.panel_thickness_in),
         FP_Edge_Vert_Cleat_Length |-> Fmt3(detail.edges.edge_vert_cleat_len),
         FP_Edge_Horiz_Cleat_Length |-> Fmt3(detail.edges.edge_horiz_cleat_len),
         FP_Edge_Cleat_Width |-> Fmt3(detail.edges.edge_cleat_width),
         FP_Inter_Cleat_Orientation |-> detail.inter.inter_cleat_orientation,
         FP_Inter_Cleat_Count |-> detail.inter.inter_cleat_count,
         FP_Inter_Cleat_Pitch |-> Fmt3Rat(detail.inter.inter_cleat_pitch),
         FP_Inter_Cleat_Length |-> Fmt3(detail.inter.inter_cleat_length),
         FB_Top_Bot_Cleat_Length |->
             Fmt3(inp.product_width_in + 2 * inp.clearance_each_side_in
                  + 2 * (inp.panel_thickness_in + inp.cleat_thickness_in)),
         Side_Vert_Cleat_Length |->
             Fmt3(skid.actual_height_in + inp.floorboard_actual_thickness_in
                  + inp.product_actual_height_in + inp.clearance_above_product_in
                  - inp.ground_clearance_in),
         Side_Horiz_Cleat_Length |->
             Fmt3(inp.product_length_in + 2 * inp.clearance_each_side_in
                  - 2 * inp.cleat_actual_width_in)]

-----------------------------------------------------------------------------
(* Direct calls of one solver: the arguments are drawn in the initial state, *)
(* the call is one step.                                                     *)

\* no orchestrator run takes part in a direct call
OrchIdle ==
    /\ variant = "current"
    /\ inputs = <<>>
    /\ output_filename = <<>>
    /\ pc = <<>>
    /\ skid_params = <<>>
    /\ floorboard_params = <<>>
    /\ panel_params = <<>>
    /\ crate_od = <<>>
    /\ result = <<>>
    /\ calls = <<>>
    /\ fs = <<>>
    /\ clock = 0

(* --- calculate_skid_parameters --- *)

MaxWidthHalves == 200

\* product weights around every bracket boundary, in pounds
SkidWeights == {0, 300, 499, 500, 4499, 4500, 20000, 20001}

\* product widths: a half-inch grid, and widths one and two units past a skid width
SkidWidths ==
    {k * 5000 : k \in 1..MaxWidthHalves}
    \cup {In(2, 5001), In(2, 5002), In(3, 5001), In(3, 5002), In(5, 5001), In(5, 5002)}

SkidArgs ==
    [fn : {"calculate_skid_parameters"},
     product_weight_lbs : {In(w, 0) : w \in SkidWeights},
     product_length_in : {In(100, 0)},
     product_width_in : SkidWidths,
     clearance_each_side_in : {0, In(2, 5000)},
     allow_3x4_skids_bool : BOOLEAN]

InitSkid == OrchIdle /\ args \in SkidArgs /\ ret = None

CallSkid ==
    /\ args.fn = "calculate_skid_parameters"
    /\ ret = None
    /\ ret' = calculate_skid_parameters(args.product_weight_lbs, args.product_length_in,
                                        args.product_width_in, args.clearance_each_side_in,
                                        args.allow_3x4_skids_bool)
    /\ UNCHANGED <<args, orch_vars>>

NextSkid == CallSkid

SpecSkid == InitSkid /\ [][NextSkid]_vars

(* --- calculate_floorboard_parameters --- *)

MaxLengthQuarters == 280

\* lists of standard lumber widths as the caller may pass them (any order)
StdLumberLists ==
    {<<In(5, 5000), In(7, 2500), In(9, 2500), In(11, 2500)>>,
     <<In(11, 2500), In(5, 5000)>>,
     <<In(7, 2500)>>,
     <<0, In(11, 2500)>>}

\* skid lengths: a quarter-inch grid, shifted by nothing or by a little
\* more or less than the tolerance 0.001
SkidModelLengths ==
    {k * 2500 + d : k \in 0..MaxLengthQuarters, d \in {0, 10, 11, -10}}

FloorArgs ==
    [fn : {"calculate_floorboard_parameters"},
     crate_overall_width_od_in : {In(45, 0)},
     skid_model_length_in : SkidModelLengths,
     panel_thickness_in : {In(0, 7500)},
     cleat_thickness_in : {In(1, 5000), In(0, 7500)},
     floorboard_actual_thickness_in : {In(1, 5000)},
     selected_std_lumber_widths : StdLumberLists,
     max_allowable_middle_gap_in : {0, In(0, 2500)},
     min_custom_lumber_width_in : {In(2, 5000), In(0, 10)},
     force_small_custom_board_bool : BOOLEAN,
     min_forceable_custom_board_width : {In(0, 2500)}]

InitFloor == OrchIdle /\ args \in FloorArgs /\ ret = None

CallFloor ==
    /\ args.fn = "calculate_floorboard_parameters"
    /\ ret = None
    /\ ret' = calculate_floorboard_parameters(
                  args.crate_overall_width_od_in, args.skid_model_length_in,
                  args.panel_thickness_in, args.cleat_thickness_in,
                  args.floorboard_actual_thickness_in, args.selected_std_lumber_widths,
                  args.max_allowable_middle_gap_in, args.min_custom_lumber_width_in,
                  args.force_small_custom_board_bool,
                  args.min_forceable_custom_board_width)
    /\ UNCHANGED <<args, orch_vars>>

NextFloor == CallFloor

SpecFloor == InitFloor /\ [][NextFloor]_vars

(* --- the fill loop of calculate_floorboard_parameters, one iteration a step --- *)

\* A double of the loop: u ten-thousandths plus t times a width far below the
\* spacing of doubles at 0.0001 (1e-30, say).  Next to a nonzero u the t part
\* is rounded away by every addition and subtraction; next to u = 0 it is exact.
D(u) == [u |-> u, t |-> 0]

\* a positive width so small that subtracting it from a nonzero span changes nothing
Tiny == [u |-> 0, t |-> 1]

\* a + b in double arithmetic
FAdd(a, b) == IF a.u + b.u # 0 THEN D(a.u + b.u) ELSE [u |-> 0, t |-> a.t + b.t]

\* a - b in double arithmetic
FSub(a, b) == IF a.u - b.u # 0 THEN D(a.u - b.u) ELSE [u |-> 0, t |-> a.t - b.t]

\* a <= b
FLE(a, b) == a.u < b.u \/ (a.u = b.u /\ a.t <= b.t)

\* a > 0
FPos(a) == a.u > 0 \/ (a.u = 0 /\ a.t > 0)

DSeq(s) == [i \in DOMAIN s |-> D(s[i])]

RECURSIVE InsertDescD(_, _)
InsertDescD(x, s) ==
    IF s = <<>> THEN <<x>>
    ELSE IF FLE(Head(s), x) THEN <<x>> \o s
    ELSE <<Head(s)>> \o InsertDescD(x, Tail(s))

\* sorted(selected_std_lumber_widths, reverse=True), floorboard_logic.py 62
RECURSIVE sorted_reverse(_)
sorted_reverse(selected_std_lumber_widths) ==
    IF selected_std_lumber_widths = <<>> THEN <<>>
    ELSE InsertDescD(Head(selected_std_lumber_widths),
                     sorted_reverse(Tail(selected_std_lumber_widths)))

\* the scan of floorboard_logic.py 70-74 on doubles: the first width that fits, else 0
RECURSIVE best_fit_std_scan(_, _)
best_fit_std_scan(sorted_widths, y_remaining_for_lumber) ==
    IF sorted_widths = <<>> THEN D(0)
    ELSE IF FLE(Head(sorted_widths), FAdd(y_remaining_for_lumber, D(10)))
    THEN Head(sorted_widths)
    ELSE best_fit_std_scan(Tail(sorted_widths), y_remaining_for_lumber)

\* usable spans of the loop, in quarter inches: negative, zero and positive
MinFillQuarters == 8
MaxFillQuarters == 120

\* list entries the memory of the process has room for
MaxListEntries == 8

\* the lists of SpecFloor, the empty list, a list with non-positive widths, and
\* lists with a width below the resolution of the span
FillLists ==
    {DSeq(l) : l \in StdLumberLists}
    \cup {<<>>, DSeq(<<0, -In(1, 0), In(5, 5000)>>), <<Tiny>>, <<D(In(5, 5000)), Tiny>>}

FillArgs ==
    [fn : {"calculate_floorboard_parameters: fill loop"},
     fb_usable_coverage_y_in : {k * 2500 : k \in (-MinFillQuarters)..MaxFillQuarters},
     selected_std_lumber_widths : FillLists,
     max_allowable_middle_gap_in : {In(0, 2500)},
     min_custom_lumber_width_in : {In(2, 5000)},
     force_small_custom_board_bool : BOOLEAN,
     min_forceable_custom_board_width : {In(0, 2500)}]

\* floorboard_logic.py 62-67: the state on entry to the while loop; ret holds
\* the locals of the running call and the line it has reached
InitFill ==
    /\ OrchIdle
    /\ args \in FillArgs
    /\ ret = [at |-> "while",
              sorted_std_lumber_widths_available |->
                  sorted_reverse(args.selected_std_lumber_widths),
              all_lumber_pieces |-> <<>>,
              y_covered_by_lumber |-> D(0),
              y_remaining_for_lumber |-> D(args.fb_usable_coverage_y_in)]

FillRunning == args # None /\ args.fn = "calculate_floorboard_parameters: fill loop"

\* floorboard_logic.py 70-79: an iteration that found a board and appends it
FillAppend ==
    /\ FillRunning /\ ret.at = "while"
    /\ LET best == best_fit_std_scan(ret.sorted_std_lumber_widths_available,
                                     ret.y_remaining_for_lumber)
       IN  /\ FPos(best)
           /\ Len(ret.all_lumber_pieces) < MaxListEntries
           /\ ret' = [ret EXCEPT
                         !.all_lumber_pieces = Append(@, best),
                         !.y_covered_by_lumber = FAdd(@, best),
                         !.y_remaining_for_lumber = FSub(@, best)]
    /\ UNCHANGED <<args, orch_vars>>

\* floorboard_logic.py 77: the append that finds the memory used up raises
\* MemoryError, which nothing in the function catches
FillMemoryError ==
    /\ FillRunning /\ ret.at = "while"
    /\ FPos(best_fit_std_scan(ret.sorted_std_lumber_widths_available,
                              ret.y_remaining_for_lumber))
    /\ Len(ret.all_lumber_pieces) >= MaxListEntries
    /\ ret' = [ret EXCEPT !.at = "raised MemoryError"]
    /\ UNCHANGED <<args, orch_vars>>

\* floorboard_logic.py 76, 80-81: no board found, the loop is left
FillBreak ==
    /\ FillRunning /\ ret.at = "while"
    /\ ~FPos(best_fit_std_scan(ret.sorted_std_lumber_widths_available,
                               ret.y_remaining_for_lumber))
    /\ ret' = [ret EXCEPT !.at = "after while"]
    /\ UNCHANGED <<args, orch_vars>>

\* floorboard_logic.py 83-136: the leftover handled, the boards laid out, the
\* return reached (the loop is left with a remaining span free of any t part)
FillReturn ==
    /\ FillRunning /\ ret.at = "after while"
    /\ LET handled == handle_remaining(ret.y_remaining_for_lumber.u,
                                       args.force_small_custom_board_bool,
                                       args.min_forceable_custom_board_width,
                                       args.min_custom_lumber_width_in,
                                       args.max_allowable_middle_gap_in)
       IN  ret' = [ret EXCEPT
                      !.at = "return",
                      !.all_lumber_pieces =
                          IF handled.appended
                          THEN Append(@, D(handled.center_custom_board_width))
                          ELSE @,
                      !.y_covered_by_lumber =
                          IF handled.appended
                          THEN FAdd(@, D(handled.center_custom_board_width))
                          ELSE @]
    /\ UNCHANGED <<args, orch_vars>>

NextFill == FillAppend \/ FillMemoryError \/ FillBreak \/ FillReturn

\* the call runs on while it has a step to take
SpecFill == InitFill /\ [][NextFill]_vars /\ WF_vars(NextFill)

(* --- the front panel component calculators --- *)

MaxPanelInches == 64

FrontArgs ==
    [fn : {"front_panel"},
     width : {In(k, 0) : k \in 1..MaxPanelInches},
     height : {In(k, 0) : k \in 1..MaxPanelInches},
     panel_sheathing_thickness : {In(0, 7500)},
     cleat_material_thickness : {In(1, 5000)},
     cleat_material_member_width : {In(3, 5000), In(1, 5000)}]

InitFront == OrchIdle /\ args \in FrontArgs /\ ret = [basic |-> None, extended |-> None, end_panel |-> None, back_panel |-> None, top_panel |-> None]

\* the basic model: calculate_front_panel_components
CallFrontPanelComponents ==
    /\ args.fn = "front_panel"
    /\ ret.basic = None
    /\ ret' = [ret EXCEPT !.basic =
                  calculate_front_panel_components(
                      args.width, args.height, args.panel_sheathing_thickness,
                      args.cleat_material_thickness, args.cleat_material_member_width)]
    /\ UNCHANGED <<args, orch_vars>>

\* the extended model: the front panel detail section of the legacy-6 generator
CallFrontPanelDetail ==
    /\ args.fn = "front_panel"
    /\ ret.extended = None
    /\ ret' = [ret EXCEPT !.extended =
                  front_panel_detail(args.width, args.height,
                                     args.cleat_material_member_width)]
    /\ UNCHANGED <<args, orch_vars>>

\* calculate_end_panel_components on a panel of the same face size
CallEndPanelComponents ==
    /\ args.fn = "front_panel"
    /\ ret.end_panel = None
    /\ ret' = [ret EXCEPT !.end_panel =
                  calculate_end_panel_components(
                      args.width, args.height, args.panel_sheathing_thickness,
                      args.cleat_material_thickness, args.cleat_material_member_width)]
    /\ UNCHANGED <<args, orch_vars>>

\* calculate_back_panel_components on a panel of the same face size
CallBackPanelComponents ==
    /\ args.fn = "front_panel"
    /\ ret.back_panel = None
    /\ ret' = [ret EXCEPT !.back_panel =
                  calculate_back_panel_components(
                      args.width, args.height, args.panel_sheathing_thickness,
                      args.cleat_material_thickness, args.cleat_material_member_width)]
    /\ UNCHANGED <<args, orch_vars>>

\* calculate_top_panel_components, the panel's height taken as the top's length
CallTopPanelComponents ==
    /\ args.fn = "front_panel"
    /\ ret.top_panel = None
    /\ ret' = [ret EXCEPT !.top_panel =
                  calculate_top_panel_components(
                      args.width, args.height, args.panel_sheathing_thickness,
                      args.cleat_material_thickness, args.cleat_material_member_width)]
    /\ UNCHANGED <<args, orch_vars>>

NextFront == CallFrontPanelComponents \/ CallFrontPanelDetail \/ CallEndPanelComponents \/ CallBackPanelComponents \/ CallTopPanelComponents

SpecFront == InitFront /\ [][NextFront]_vars

(* --- calculate_panel_parameters --- *)

MaxCrateLengthQuarters == 48

\* crate lengths on a quarter-inch grid, from shorter than two panel assemblies
\* to longer; the other arguments as validate_inputs lets them through
PanelArgs ==
    [fn : {"calculate_panel_parameters"},
     crate_overall_width_od_in : {In(3, 0), In(45, 0)},
     crate_overall_length_od_in : {k * 2500 : k \in 1..MaxCrateLengthQuarters},
     panel_thickness_in : {In(0, 2500), In(0, 7500)},
     cleat_thickness_in : {0, In(0, 7500), In(1, 5000)},
     product_actual_height_in : {In(50, 0)},
     clearance_above_product_in : {In(2, 0)},
     floorboard_actual_thickness_in : {In(1, 5000)},
     skid_actual_height_in : {In(3, 5000)},
     ground_clearance_in : {0, In(1, 0)}]

InitPanel == OrchIdle /\ args \in PanelArgs /\ ret = None

CallPanel ==
    /\ args.fn = "calculate_panel_parameters"
    /\ ret = None
    /\ ret' = calculate_panel_parameters(
                  args.crate_overall_width_od_in, args.crate_overall_length_od_in,
                  args.panel_thickness_in, args.cleat_thickness_in,
                  args.product_actual_height_in, args.clearance_above_product_in,
                  args.floorboard_actual_thickness_in, args.skid_actual_height_in,
                  args.ground_clearance_in)
    /\ UNCHANGED <<args, orch_vars>>

NextPanel == CallPanel

SpecPanel == InitPanel /\ [][NextPanel]_vars

-----------------------------------------------------------------------------
(* main_orchestrator.py: validate_inputs *)

MIN_FORCEABLE_CUSTOM_BOARD_WIDTH == 2500

\* the first key of keys that the dictionary inp lacks, "" when it has them all
RECURSIVE FirstMissing(_, _)
FirstMissing(keys, inp) ==
    IF keys = <<>> THEN ""
    ELSE IF Head(keys) \notin DOMAIN inp THEN Head(keys)
    ELSE FirstMissing(Tail(keys), inp)

\* main_orchestrator.py 27-40: the keys validate_inputs looks up, in order
ValidatedKeys ==
    <<"product_weight_lbs", "product_length_in", "product_width_in",
      "clearance_each_side_in", "panel_thickness_in", "cleat_thickness_in",
      "product_actual_height_in", "clearance_above_product_in",
      "ground_clearance_in", "floorboard_actual_thickness_in",
      "selected_std_lumber_widths", "max_allowable_middle_gap_in",
      "min_custom_lumber_width_in", "force_small_custom_board_bool">>

\* legacy-6 main_orchestrator.py 28-49
ValidatedKeysLegacy6 ==
    <<"product_weight_lbs", "product_length_in", "product_width_in",
      "clearance_each_side_in", "panel_thickness_in", "cleat_thickness_in",
      "cleat_actual_width_in",
      "product_actual_height_in", "clearance_above_product_in",
      "ground_clearance_in", "floorboard_actual_thickness_in",
      "selected_std_lumber_widths", "max_allowable_middle_gap_in",
      "min_custom_lumber_width_in", "force_small_custom_board_bool",
      "skid_material_nominal_width_in", "skid_material_nominal_thickness_in",
      "skid_spacing_in", "max_inter_cleat_spacing_in">>

\* main_orchestrator.py 98-112: the keys generate_crate_expressions extracts
ExtractedKeys ==
    <<"product_weight_lbs", "product_length_in", "product_width_in",
      "clearance_each_side_in", "allow_3x4_skids_bool", "panel_thickness_in",
      "cleat_thickness_in", "product_actual_height_in",
      "clearance_above_product_in", "ground_clearance_in",
      "floorboard_actual_thickness_in", "selected_std_lumber_widths",
      "max_allowable_middle_gap_in", "min_custom_lumber_width_in",
      "force_small_custom_board_bool">>

\* legacy-6 main_orchestrator.py 157-177 (num_skids_override is read with .get)
ExtractedKeysLegacy6 ==
    <<"product_weight_lbs", "product_length_in", "product_width_in",
      "clearance_each_side_in", "allow_3x4_skids_bool", "panel_thickness_in",
      "cleat_thickness_in", "cleat_actual_width_in", "product_actual_height_in",
      "clearance_above_product_in", "ground_clearance_in",
      "floorboard_actual_thickness_in", "selected_std_lumber_widths",
      "max_allowable_middle_gap_in", "min_custom_lumber_width_in",
      "force_small_custom_board_bool", "skid_material_nominal_width_in",
      "skid_material_nominal_thickness_in", "skid_spacing_in",
      "max_inter_cleat_spacing_in">>

Invalid(msg) == [is_valid |-> FALSE, error_msg |-> msg]

\* main_orchestrator.py 42-73: the checks, in order, once every key was found
validate_values(inp) ==
    IF inp.product_weight_lbs < 0 THEN Invalid("Product weight must be non-negative.")
    ELSE IF inp.product_length_in <= 0 THEN Invalid("Product length must be positive.")
    ELSE IF inp.product_width_in <= 0 THEN Invalid("Product width must be positive.")
    ELSE IF inp.clearance_each_side_in < 0 THEN Invalid("Clearance cannot be negative.")
    ELSE IF inp.panel_thickness_in <= 0 THEN Invalid("Panel sheathing thickness must be positive.")
    ELSE IF inp.cleat_thickness_in < 0 THEN Invalid("Cleat thickness cannot be negative (can be 0).")
    ELSE IF inp.product_actual_height_in <= 0 THEN Invalid("Product actual height must be positive.")
    ELSE IF inp.clearance_above_product_in < 0 THEN Invalid("Clearance above product cannot be negative.")
    ELSE IF inp.ground_clearance_in < 0 THEN Invalid("Ground clearance cannot be negative.")
    ELSE IF inp.floorboard_actual_thickness_in <= 0 THEN Invalid("Floorboard thickness must be positive.")
    ELSE IF inp.selected_std_lumber_widths = <<>> THEN Invalid("No standard lumber selected for floorboards.")
    ELSE IF inp.max_allowable_middle_gap_in < 0 THEN Invalid("Max middle gap cannot be negative.")
    ELSE IF inp.min_custom_lumber_width_in <= 0 THEN Invalid("Min custom lumber width must be positive.")
    ELSE IF inp.min_custom_lumber_width_in < MIN_FORCEABLE_CUSTOM_BOARD_WIDTH
            /\ inp.force_small_custom_board_bool
    THEN Invalid("Min custom board width generally cannot be less than 0.25 inches.")
    ELSE [is_valid |-> TRUE, error_msg |-> ""]

\* main_orchestrator.py 15-78
validate_inputs(inp) ==
    LET missing == FirstMissing(ValidatedKeys, inp)
    IN  IF missing # ""
        THEN [is_valid |-> FALSE, error_msg |-> <<"Missing required input: ", missing>>]
        ELSE validate_values(inp)

\* legacy-6 main_orchestrator.py 16-99: the same checks, and those on the cleat
\* width and the skid and cleat spacing inputs
validate_inputs_legacy6(inp) ==
    LET missing == FirstMissing(ValidatedKeysLegacy6, inp)
        common == validate_values(inp)
        cleat_width_bad == inp.cleat_actual_width_in <= 0
        \* the cleat width check sits after the cleat thickness check
        before_cleat_width ==
            \/ inp.product_weight_lbs < 0
            \/ inp.product_length_in <= 0
            \/ inp.product_width_in <= 0
            \/ inp.clearance_each_side_in < 0
            \/ inp.panel_thickness_in <= 0
            \/ inp.cleat_thickness_in < 0
    IN  IF missing # ""
        THEN [is_valid |-> FALSE, error_msg |-> <<"Missing required input: ", missing>>]
        ELSE IF before_cleat_width THEN common
        ELSE IF cleat_width_bad THEN Invalid("Cleat actual width must be positive.")
        ELSE IF ~common.is_valid THEN common
        ELSE IF inp.skid_material_nominal_width_in <= 0
        THEN Invalid("Skid material nominal width must be positive.")
        ELSE IF inp.skid_material_nominal_thickness_in <= 0
        THEN Invalid("Skid material nominal thickness must be positive.")
        ELSE IF inp.skid_spacing_in < 0 THEN Invalid("Skid spacing cannot be negative.")
        ELSE IF inp.max_inter_cleat_spacing_in <= 0
        THEN Invalid("Max inter cleat spacing must be positive.")
        ELSE [is_valid |-> TRUE, error_msg |-> ""]

\* validate_inputs of the orchestrator that runs
Validation(v, inp) ==
    IF v = "legacy6" THEN validate_inputs_legacy6(inp) ELSE validate_inputs(inp)

\* the key whose lookup raises KeyError during extraction, "" if none does
ExtractionKeyError(v, inp) ==
    FirstMissing(IF v = "legacy6" THEN ExtractedKeysLegacy6 ELSE ExtractedKeys, inp)

-----------------------------------------------------------------------------
(* main_orchestrator.py: generate_crate_expressions, run by run *)

Runs == {1, 2}

MaxClock == 2

\* the request of test_orchestrator.py (legacy-6) and of the form's defaults
SampleInputs ==
    [product_weight_lbs |-> In(300, 0),
     product_length_in |-> In(100, 0),
     product_width_in |-> In(40, 0),
     clearance_each_side_in |-> In(2, 5000),
     allow_3x4_skids_bool |-> TRUE,
     panel_thickness_in |-> In(0, 2500),
     cleat_thickness_in |-> In(0, 7500),
     product_actual_height_in |-> In(50, 0),
     clearance_above_product_in |-> In(2, 0),
     ground_clearance_in |-> In(1, 0),
     cleat_actual_width_in |-> In(3, 5000),
     floorboard_actual_thickness_in |-> In(1, 5000),
     selected_std_lumber_widths |-> <<In(5, 5000), In(7, 2500), In(9, 2500), In(11, 2500)>>,
     max_allowable_middle_gap_in |-> In(0, 2500),
     min_custom_lumber_width_in |-> In(2, 5000),
     force_small_custom_board_bool |-> TRUE,
     skid_material_nominal_width_in |-> In(3, 5000),
     skid_material_nominal_thickness_in |-> In(1, 5000),
     skid_spacing_in |-> In(24, 0),
     max_inter_cleat_spacing_in |-> In(24, 0)]

\* the dictionary d without key k
Without(d, k) == [x \in (DOMAIN d) \ {k} |-> d[x]]

\* requests: the sample, and the sample with one or two entries changed,
\* made invalid, or left out
Requests ==
    {SampleInputs,
     [SampleInputs EXCEPT !.force_small_custom_board_bool = FALSE],
     [SampleInputs EXCEPT !.product_weight_lbs = In(5000, 0),
                          !.product_width_in = In(3, 0),
                          !.clearance_each_side_in = 0],
     [SampleInputs EXCEPT !.product_length_in = In(1, 0),
                          !.clearance_each_side_in = 0,
                          !.cleat_thickness_in = 0],
     [SampleInputs EXCEPT !.product_length_in = In(62, 5000),
                          !.panel_thickness_in = In(0, 7500),
                          !.cleat_thickness_in = In(1, 5000),
                          !.allow_3x4_skids_bool = FALSE],
     [SampleInputs EXCEPT !.cleat_actual_width_in = 0],
     [SampleInputs EXCEPT !.product_weight_lbs = In(-1, 0)],
     [SampleInputs EXCEPT !.panel_thickness_in = 0],
     [SampleInputs EXCEPT !.selected_std_lumber_widths = <<>>],
     [SampleInputs EXCEPT !.selected_std_lumber_widths = <<In(11, 2500), 0>>],
     [SampleInputs EXCEPT !.product_length_in = In(120, 0),
                          !.selected_std_lumber_widths = <<In(5, 5000)>>],
     Without(SampleInputs, "product_weight_lbs"),
     Without(SampleInputs, "allow_3x4_skids_bool")}

\* output paths; one names a directory that does not exist, so open() fails
Filenames == {"a.exp", "b.exp", "nodir/c.exp"}
Writable == {"a.exp", "b.exp"}

NoFile == [absent |-> TRUE]

Init ==
    /\ variant \in {"current", "legacy6"}
    /\ inputs \in [Runs -> Requests]
    /\ output_filename \in [Runs -> Filenames]
    /\ pc = [r \in Runs |-> "validate"]
    /\ skid_params = [r \in Runs |-> None]
    /\ floorboard_params = [r \in Runs |-> None]
    /\ panel_params = [r \in Runs |-> None]
    /\ crate_od = [r \in Runs |-> None]
    /\ result = [r \in Runs |-> None]
    /\ calls = [r \in Runs |-> <<>>]
    /\ fs = [f \in Writable |-> NoFile]
    /\ clock = 0
    /\ args = None
    /\ ret = None

Return(r, success, message) ==
    /\ result' = [result EXCEPT ![r] = [success |-> success, message |-> message]]
    /\ pc' = [pc EXCEPT ![r] = "done"]

\* generate_crate_expressions without the try/except around the extraction: a
\* missing key leaves the function by a KeyError, no pair returned
Validate_key_error_uncaught(r) ==
    /\ pc[r] = "validate"
    /\ LET v == Validation(variant, inputs[r])
           key == ExtractionKeyError(variant, inputs[r])
       IN  IF ~v.is_valid
           THEN Return(r, FALSE, v.error_msg)
           ELSE IF key # ""
           THEN /\ pc' = [pc EXCEPT ![r] = "raised KeyError"]
                /\ UNCHANGED result
           ELSE /\ pc' = [pc EXCEPT ![r] = "skid"]
                /\ UNCHANGED result
    /\ UNCHANGED <<variant, inputs, output_filename, skid_params, floorboard_params, panel_params, crate_od, calls, fs, clock, args, ret>>

\* generate_crate_expressions with the "if not is_valid: return" left out
Validate_no_return(r) ==
    /\ pc[r] = "validate"
    /\ LET key == ExtractionKeyError(variant, inputs[r])
       IN  IF key # ""
           THEN Return(r, FALSE, <<"Error: ", key>>)
           ELSE /\ pc' = [pc EXCEPT ![r] = "skid"]
                /\ UNCHANGED result
    /\ UNCHANGED <<variant, inputs, output_filename, skid_params, floorboard_params, panel_params, crate_od, calls, fs, clock, args, ret>>

\* main_orchestrator.py 91-112: validate, return the error, else extract the
\* inputs (a missing key raises KeyError, caught at 186-189)
Validate(r) ==
    /\ pc[r] = "validate"
    /\ LET v == Validation(variant, inputs[r])
           key == ExtractionKeyError(variant, inputs[r])
       IN  IF ~v.is_valid
           THEN Return(r, FALSE, v.error_msg)
           ELSE IF key # ""
           THEN Return(r, FALSE, <<"Error: ", key>>)
           ELSE /\ pc' = [pc EXCEPT ![r] = "skid"]
                /\ UNCHANGED result
    /\ UNCHANGED <<variant, inputs, output_filename, skid_params, floorboard_params, panel_params, crate_od, calls, fs, clock, args, ret>>

\* main_orchestrator.py 114-125: STEP 1, and the overall crate dimensions
\* (the legacy-6 orchestrator computes those only after the panels)
CalcSkid(r) ==
    /\ pc[r] = "skid"
    /\ LET inp == inputs[r]
           skid == calculate_skid_parameters(inp.product_weight_lbs, inp.product_length_in,
                                             inp.product_width_in, inp.clearance_each_side_in,
                                             inp.allow_3x4_skids_bool)
       IN  /\ skid_params' = [skid_params EXCEPT ![r] = skid]
           /\ crate_od' =
                  IF variant = "legacy6" THEN crate_od
                  ELSE [crate_od EXCEPT ![r] =
                           [crate_overall_width_od_in |->
                                inp.product_width_in + (2 * inp.clearance_each_side_in),
                            crate_overall_length_od_in |-> skid.model_length_in]]
    /\ calls' = [calls EXCEPT ![r] = Append(@, "calculate_skid_parameters")]
    /\ pc' = [pc EXCEPT ![r] = "floorboard"]
    /\ UNCHANGED <<variant, inputs, output_filename, floorboard_params, panel_params, result, fs, clock, args, ret>>

\* STEP 2 reading the skid record from one place shared by all runs
CalcFloorboard_shared_skid(r) ==
    /\ pc[r] = "floorboard"
    /\ LET inp == inputs[r]
           crate_width == inp.product_width_in + (2 * inp.clearance_each_side_in)
           shared == IF skid_params[1] # None THEN skid_params[1] ELSE skid_params[r]
       IN  floorboard_params' = [floorboard_params EXCEPT ![r] =
               calculate_floorboard_parameters(
                   crate_width, shared.model_length_in,
                   inp.panel_thickness_in, inp.cleat_thickness_in,
                   inp.floorboard_actual_thickness_in, inp.selected_std_lumber_widths,
                   inp.max_allowable_middle_gap_in, inp.min_custom_lumber_width_in,
                   inp.force_small_custom_board_bool, MIN_FORCEABLE_CUSTOM_BOARD_WIDTH)]
    /\ calls' = [calls EXCEPT ![r] = Append(@, "calculate_floorboard_parameters")]
    /\ pc' = [pc EXCEPT ![r] = "panel"]
    /\ UNCHANGED <<variant, inputs, output_filename, skid_params, panel_params, crate_od, result, fs, clock, args, ret>>

\* main_orchestrator.py 127-139: STEP 2
CalcFloorboard(r) ==
    /\ pc[r] = "floorboard"
    /\ LET inp == inputs[r]
           crate_width == inp.product_width_in + (2 * inp.clearance_each_side_in)
       IN  floorboard_params' = [floorboard_params EXCEPT ![r] =
               calculate_floorboard_parameters(
                   crate_width, skid_params[r].model_length_in,
                   inp.panel_thickness_in, inp.cleat_thickness_in,
                   inp.floorboard_actual_thickness_in, inp.selected_std_lumber_widths,
                   inp.max_allowable_middle_gap_in, inp.min_custom_lumber_width_in,
                   inp.force_small_custom_board_bool, MIN_FORCEABLE_CUSTOM_BOARD_WIDTH)]
    /\ calls' = [calls EXCEPT ![r] = Append(@, "calculate_floorboard_parameters")]
    /\ pc' = [pc EXCEPT ![r] = "panel"]
    /\ UNCHANGED <<variant, inputs, output_filename, skid_params, panel_params, crate_od, result, fs, clock, args, ret>>

\* legacy-6 main_orchestrator.py 193-194, 211-244: the panel record built inline
legacy6_panel_params(inp, skid) ==
    LET crate_internal_width == inp.product_width_in + (2 * inp.clearance_each_side_in)
        crate_internal_length == inp.product_length_in + (2 * inp.clearance_each_side_in)
        enclosed_vertical_space_height ==
            inp.product_actual_height_in + inp.clearance_above_product_in
        front_back_panel_plywood_height == enclosed_vertical_space_height
        side_panel_plywood_height ==
            Max(0, skid.actual_height_in + inp.floorboard_actual_thickness_in
                   + inp.product_actual_height_in + inp.clearance_above_product_in
                   - inp.ground_clearance_in)
        panel_assembly_thickness == inp.panel_thickness_in + inp.cleat_thickness_in
    IN  [assembly_overall_thickness |-> panel_assembly_thickness,
         front_calc_width |-> crate_internal_width,
         front_calc_height |-> front_back_panel_plywood_height,
         front_calc_depth |-> panel_assembly_thickness,
         back_calc_width |-> crate_internal_width,
         back_calc_height |-> front_back_panel_plywood_height,
         back_calc_depth |-> panel_assembly_thickness,
         end_calc_length |-> crate_internal_length,
         end_calc_height |-> side_panel_plywood_height,
         end_calc_depth |-> panel_assembly_thickness,
         top_calc_width |-> crate_internal_width,
         top_calc_length |-> crate_internal_length,
         top_calc_depth |-> panel_assembly_thickness]

\* legacy-6 main_orchestrator.py 249-250: overall outer dimensions
legacy6_crate_od(inp) ==
    LET crate_internal_width == inp.product_width_in + (2 * inp.clearance_each_side_in)
        crate_internal_length == inp.product_length_in + (2 * inp.clearance_each_side_in)
        panel_assembly_thickness == inp.panel_thickness_in + inp.cleat_thickness_in
    IN  [crate_overall_width_od_in |-> crate_internal_width + (2 * panel_assembly_thickness),
         crate_overall_length_od_in |-> crate_internal_length + (2 * panel_assembly_thickness)]

\* main_orchestrator.py 141-152: STEP 3
CalcPanel(r) ==
    /\ pc[r] = "panel"
    /\ LET inp == inputs[r]
       IN  IF variant = "legacy6"
           THEN /\ panel_params' = [panel_params EXCEPT ![r] =
                                       legacy6_panel_params(inp, skid_params[r])]
                /\ crate_od' = [crate_od EXCEPT ![r] = legacy6_crate_od(inp)]
                /\ UNCHANGED calls
           ELSE /\ panel_params' = [panel_params EXCEPT ![r] =
                       calculate_panel_parameters(
                           crate_od[r].crate_overall_width_od_in,
                           crate_od[r].crate_overall_length_od_in,
                           inp.panel_thickness_in, inp.cleat_thickness_in,
                           inp.product_actual_height_in, inp.clearance_above_product_in,
                           inp.floorboard_actual_thickness_in,
                           skid_params[r].actual_height_in, inp.ground_clearance_in)]
                /\ calls' = [calls EXCEPT ![r] = Append(@, "calculate_panel_parameters")]
                /\ UNCHANGED crate_od
    /\ pc' = [pc EXCEPT ![r] = "generate"]
    /\ UNCHANGED <<variant, inputs, output_filename, skid_params, floorboard_params, result, fs, clock, args, ret>>

\* main_orchestrator.py 154-184 and nx_generator.py 50-136: STEP 4, the file
\* written with the content stamped with the time of the call, and the return
GenerateNX(r) ==
    /\ pc[r] = "generate"
    /\ LET content ==
               IF variant = "legacy6"
               THEN expressions_content_legacy6(inputs[r], skid_params[r],
                                                floorboard_params[r], panel_params[r],
                                                crate_od[r], clock)
               ELSE expressions_content(inputs[r], skid_params[r],
                                        floorboard_params[r], panel_params[r],
                                        crate_od[r], clock)
       IN  IF output_filename[r] \in Writable
           THEN /\ fs' = [fs EXCEPT ![output_filename[r]] = content]
                /\ Return(r, TRUE, <<"Successfully generated: ", output_filename[r]>>)
           ELSE /\ UNCHANGED fs
                /\ Return(r, FALSE, "Failed to generate NX expressions file")
    /\ calls' = [calls EXCEPT ![r] = Append(@, "generate_nx_expressions_file")]
    /\ UNCHANGED <<variant, inputs, output_filename, skid_params, floorboard_params, panel_params, crate_od, clock, args, ret>>

\* time passes
Tick ==
    /\ clock < MaxClock
    /\ clock' = clock + 1
    /\ UNCHANGED <<variant, inputs, output_filename, pc, skid_params, floorboard_params, panel_params, crate_od, result, calls, fs, args, ret>>

Next ==
    \/ \E r \in Runs : Validate(r)
    \/ \E r \in Runs : CalcSkid(r)
    \/ \E r \in Runs : CalcFloorboard(r)
    \/ \E r \in Runs : CalcPanel(r)
    \/ \E r \in Runs : GenerateNX(r)
    \/ Tick

Spec == Init /\ [][Next]_vars

\* main_orchestrator.py 80-189: generate_crate_expressions executed alone, from
\* its first statement to its return, the generator reading the clock as now;
\* content is what it leaves in the file output_filename (NoFile: not written)
generate_crate_expressions(v, inp, fname, now) ==
    LET val == Validation(v, inp)
        key == ExtractionKeyError(v, inp)
        failed(message) == [result |-> [success |-> FALSE, message |-> message],
                            content |-> NoFile]
    IN  IF ~val.is_valid THEN failed(val.error_msg)
        ELSE IF key # "" THEN failed(<<"Error: ", key>>)
        ELSE LET crate_width == inp.product_width_in + (2 * inp.clearance_each_side_in)
                 skid == calculate_skid_parameters(
                             inp.product_weight_lbs, inp.product_length_in,
                             inp.product_width_in, inp.clearance_each_side_in,
                             inp.allow_3x4_skids_bool)
                 floor == calculate_floorboard_parameters(
                              crate_width, skid.model_length_in,
                              inp.panel_thickness_in, inp.cleat_thickness_in,
                              inp.floorboard_actual_thickness_in,
                              inp.selected_std_lumber_widths,
                              inp.max_allowable_middle_gap_in,
                              inp.min_custom_lumber_width_in,
                              inp.force_small_custom_board_bool,
                              MIN_FORCEABLE_CUSTOM_BOARD_WIDTH)
                 od == IF v = "legacy6" THEN legacy6_crate_od(inp)
                       ELSE [crate_overall_width_od_in |-> crate_width,
                             crate_overall_length_od_in |-> skid.model_length_in]
                 panel == IF v = "legacy6" THEN legacy6_panel_params(inp, skid)
                          ELSE calculate_panel_parameters(
                                   od.crate_overall_width_od_in,
                                   od.crate_overall_length_od_in,
                                   inp.panel_thickness_in, inp.cleat_thickness_in,
                                   inp.product_actual_height_in,
                                   inp.clearance_above_product_in,
                                   inp.floorboard_actual_thickness_in,
                                   skid.actual_height_in, inp.ground_clearance_in)
                 content == IF v = "legacy6"
                            THEN expressions_content_legacy6(inp, skid, floor, panel, od, now)
                            ELSE expressions_content(inp, skid, floor, panel, od, now)
             IN  IF fname \in Writable
                 THEN [result |-> [success |-> TRUE,
                                   message |-> <<"Successfully generated: ", fname>>],
                       content |-> content]
                 ELSE failed("Failed to generate NX expressions file")

-----------------------------------------------------------------------------
(* Properties *)

Range(f) == {f[x] : x \in DOMAIN f}

RECURSIVE SumWidths(_)
SumWidths(boards) == IF boards = <<>> THEN 0 ELSE Head(boards).width + SumWidths(Tail(boards))

SkidCalled == args # None /\ args.fn = "calculate_skid_parameters" /\ ret # None
FloorCalled == args # None /\ args.fn = "calculate_floorboard_parameters" /\ ret # None
FrontCalled == args # None /\ args.fn = "front_panel" /\ ret.basic # None /\ ret.extended # None

\* the checks of validate_inputs on the arguments the floorboard solver receives
FloorArgsPassValidation ==
    /\ args.skid_model_length_in > 0
    /\ args.panel_thickness_in > 0
    /\ args.cleat_thickness_in >= 0
    /\ args.floorboard_actual_thickness_in > 0
    /\ args.selected_std_lumber_widths # <<>>
    /\ args.max_allowable_middle_gap_in >= 0
    /\ args.min_custom_lumber_width_in > 0
    /\ ~(args.min_custom_lumber_width_in < MIN_FORCEABLE_CUSTOM_BOARD_WIDTH
         /\ args.force_small_custom_board_bool)

fb_usable_coverage_y_in == args.skid_model_length_in - 2 * (args.panel_thickness_in + args.cleat_thickness_in)

\* C1 (as claimed): every floorboard plan from validated inputs covers the usable
\* span: standard board widths + custom board width + middle gap equals
\* skid_model_length - 2*(panel_thickness + cleat_thickness) within 0.001.
\* (floorboards_data holds the standard boards and the custom board.)
C1_CoverageAsClaimed ==
    (FloorCalled /\ FloorArgsPassValidation) =>
        Abs(SumWidths(ret.floorboards_data) + ret.actual_middle_gap
            - fb_usable_coverage_y_in) <= 10

\* the skid centerline positions first_pos_x + i*pitch, i = 0 .. count-1, summed
RECURSIVE SumSkidPositions(_, _)
SumSkidPositions(skid, i) ==
    IF i >= skid.count THEN RatInt(0)
    ELSE RatAdd(RatAdd(skid.first_pos_x_in, RatMulInt(skid.pitch_in, i)),
                SumSkidPositions(skid, i + 1))

\* C2: the skid centerline positions are symmetric about X = 0: their sum
\* divided by the skid count is 0 within 0.001.
C2_SkidSymmetry ==
    SkidCalled =>
        RatLE(RatAbs(RatDivInt(SumSkidPositions(ret, 0), ret.count)), RatInt(10))

\* a call that placed three or more skids, the first left of the centerline
C2_Witness == SkidCalled /\ ret.count >= 3 /\ ret.first_pos_x_in.num < 0

\* run r has handed its geometry record to the expression generator
Handed(r) == pc[r] = "generate" \/ "generate_nx_expressions_file" \in Range(calls[r])

C4_IdempotenceAsClaimed ==
    \A r1, r2 \in DOMAIN pc :
        (/\ inputs[r1] = inputs[r2]
         /\ output_filename[r1] # output_filename[r2]
         /\ pc[r1] = "done" /\ pc[r2] = "done"
         /\ result[r1].success /\ result[r2].success)
        => fs[output_filename[r1]] = fs[output_filename[r2]]

Rejected(r) == ~Validation(variant, inputs[r]).is_valid

\* C5: a request validate_inputs rejects invokes no solver and no generator, is
\* answered (False, message) with the validation message, and no step of its run
\* changes the file system; no solver is called before validation has passed.
C5_RejectedState ==
    \A r \in DOMAIN pc :
        /\ Rejected(r) =>
              /\ calls[r] = <<>>
              /\ pc[r] \in {"validate", "done"}
              /\ pc[r] = "done" =>
                    result[r] = [success |-> FALSE,
                                 message |-> Validation(variant, inputs[r]).error_msg]
        /\ calls[r] # <<>> => (pc[r] # "validate" /\ ~Rejected(r))

C5_RejectedStep ==
    \A r \in DOMAIN pc : (Rejected(r) /\ pc'[r] # pc[r]) => fs' = fs

C5_ValidationFirst == []C5_RejectedState /\ [][C5_RejectedStep]_vars

\* a rejected request has been answered
C5_Witness == \E r \in DOMAIN pc : Rejected(r) /\ pc[r] = "done"

crate_outer_width == args.product_width_in + 2 * args.clearance_each_side_in

\* C6: crate outer width <= skid width gives one skid, pitch 0, at position 0.
C6_SingleSkid ==
    (SkidCalled /\ crate_outer_width <= ret.actual_width_in) =>
        /\ ret.count = 1
        /\ ret.pitch_in = RatInt(0)
        /\ ret.first_pos_x_in = RatInt(0)

\* a crate exactly as wide as its skid
C6_Witness == SkidCalled /\ crate_outer_width = ret.actual_width_in /\ ret.count = 1

C7_Scenario ==
    /\ SkidCalled
    /\ args.product_weight_lbs = In(300, 0)
    /\ args.product_length_in = In(100, 0)
    /\ args.product_width_in = In(40, 0)
    /\ args.clearance_each_side_in = In(2, 5000)
    /\ args.allow_3x4_skids_bool

\* C7 (as claimed): the scenario selects the light bracket and gives count 2.
C7_AsClaimed ==
    C7_Scenario =>
        /\ ret.actual_height_in = In(3, 5000)
        /\ ret.actual_width_in = In(2, 5000)
        /\ ret.count = 2
        /\ ret.pitch_in = Rat(In(45, 0) - In(2, 5000), ret.count - 1)

\* C7 (amended): the scenario selects the light bracket (height 3.5, width 2.5)
\* and gives count 3 = ceil(42.5/30) + 1, with pitch (45 - 2.5)/(count - 1) = 21.25.
C7_Amended ==
    C7_Scenario =>
        /\ ret.actual_height_in = In(3, 5000)
        /\ ret.actual_width_in = In(2, 5000)
        /\ ret.count = 3
        /\ ret.pitch_in = Rat(In(45, 0) - In(2, 5000), ret.count - 1)
        /\ ret.pitch_in = RatInt(In(21, 2500))

C7_Witness == C7_Scenario

C8_Scenario ==
    /\ FloorCalled
    /\ args.selected_std_lumber_widths = <<In(5, 5000), In(7, 2500), In(9, 2500), In(11, 2500)>>
    /\ fb_usable_coverage_y_in = In(58, 0)
    /\ args.min_custom_lumber_width_in = In(2, 5000)
    /\ args.max_allowable_middle_gap_in = In(0, 2500)
    /\ ~args.force_small_custom_board_bool

\* C8: the scenario places exactly five 11.25 boards (56.25), leaves 1.75
\* uncovered, appends no custom board and reports gap 0.
C8_UnresolvedBranch ==
    C8_Scenario =>
        /\ Len(ret.floorboards_data) = 5
        /\ \A i \in 1..Len(ret.floorboards_data) : ret.floorboards_data[i].width = In(11, 2500)
        /\ SumWidths(ret.floorboards_data) = In(56, 2500)
        /\ fb_usable_coverage_y_in - SumWidths(ret.floorboards_data) = In(1, 7500)
        /\ ret.center_custom_board_width = 0
        /\ ret.actual_middle_gap = 0

C8_Witness == C8_Scenario

C9_Scenario ==
    /\ FrontCalled
    /\ args.width = In(48, 0)
    /\ args.height = In(60, 0)
    /\ args.cleat_material_member_width = In(3, 5000)

\* C9: a 48 x 60 front panel with cleat member width 3.5 has edge vertical cleat
\* length 53 in both models, edge horizontal cleat length 48 in the basic model
\* and 41 in the extended model.
C9_FrontPanelCleats ==
    C9_Scenario =>
        /\ ret.basic.vertical_cleats.length = In(53, 0)
        /\ ret.extended.edges.edge_vert_cleat_len = In(53, 0)
        /\ ret.basic.horizontal_cleats.length = In(48, 0)
        /\ ret.extended.edges.edge_horiz_cleat_len = In(41, 0)

C9_Witness == C9_Scenario

\* C10 (as claimed): in every geometry record handed to the expression generator,
\* front and back panel width = crate overall outer width + 2 * end panel depth.
C10_CoverageAsClaimed ==
    \A r \in DOMAIN pc :
        Handed(r) =>
            /\ panel_params[r].front_calc_width =
                   crate_od[r].crate_overall_width_od_in + 2 * panel_params[r].end_calc_depth
            /\ panel_params[r].back_calc_width =
                   crate_od[r].crate_overall_width_od_in + 2 * panel_params[r].end_calc_depth

PanelCalled == args # None /\ args.fn = "calculate_panel_parameters" /\ ret # None

\* the checks of validate_inputs on the arguments the panel solver receives
\* (crate width and length are product size + 2 * clearance, so both positive)
PanelArgsPassValidation ==
    /\ args.crate_overall_width_od_in > 0
    /\ args.crate_overall_length_od_in > 0
    /\ args.panel_thickness_in > 0
    /\ args.cleat_thickness_in >= 0
    /\ args.product_actual_height_in > 0
    /\ args.clearance_above_product_in >= 0
    /\ args.ground_clearance_in >= 0
    /\ args.floorboard_actual_thickness_in > 0

\* C11 (as claimed): every dimension calculate_panel_parameters returns for
\* validated inputs is >= 0; the end panel length is 0, not negative, when the
\* crate overall length is smaller than front depth + back depth.
C11_NonNegativeAsClaimed ==
    (PanelCalled /\ PanelArgsPassValidation) =>
        /\ \A f \in DOMAIN ret : ret[f] >= 0
        /\ (args.crate_overall_length_od_in < ret.front_calc_depth + ret.back_calc_depth)
               => ret.end_calc_length = 0

\* the keys of the dictionary a component calculator returns that are not one of
\* its three components: the only place a warning could be carried
ExtraKeys(components) == (DOMAIN components) \ {"plywood", "horizontal_cleats", "vertical_cleats"}

FrontComponentsCalled == args # None /\ args.fn = "front_panel" /\ ret.basic # None
EndComponentsCalled == args # None /\ args.fn = "front_panel" /\ ret.end_panel # None

\* C12 (as claimed): whenever a cleat length would be negative and is clamped to
\* 0, the result handed back to the caller carries a warning about it.
C12_ClampWarnedAsClaimed ==
    /\ (FrontComponentsCalled /\ args.height - 2 * args.cleat_material_member_width < 0)
           => (ret.basic.vertical_cleats.length = 0 /\ ExtraKeys(ret.basic) # {})
    /\ (EndComponentsCalled /\ args.width - 2 * args.cleat_material_member_width < 0)
           => (ret.end_panel.horizontal_cleats.length = 0 /\ ExtraKeys(ret.end_panel) # {})

\* request inp names a thickness that is not positive, or a set of standard
\* lumber widths that is empty or holds a width that is not positive
BadThicknessOrLumber(inp) ==
    \/ ("panel_thickness_in" \in DOMAIN inp /\ inp.panel_thickness_in <= 0)
    \/ ("cleat_thickness_in" \in DOMAIN inp /\ inp.cleat_thickness_in <= 0)
    \/ ("floorboard_actual_thickness_in" \in DOMAIN inp /\ inp.floorboard_actual_thickness_in <= 0)
    \/ ("selected_std_lumber_widths" \in DOMAIN inp
        /\ \/ inp.selected_std_lumber_widths = <<>>
           \/ \E i \in DOMAIN inp.selected_std_lumber_widths : inp.selected_std_lumber_widths[i] <= 0)

\* C13 (as claimed): validate_inputs rejects every request with sheathing, cleat
\* or floorboard thickness <= 0, or with an empty set of standard lumber widths
\* or a width <= 0 in it, so no solver ever runs on such a request.
C13_RejectsAsClaimed ==
    \A r \in DOMAIN pc :
        (BadThicknessOrLumber(inputs[r]) /\ pc[r] # "validate") =>
            (Rejected(r) /\ pc[r] = "done" /\ calls[r] = <<>>)

\* the floorboard instance table run r's call of the generator writes
WrittenSlots(r) == fs'[output_filename[r]].body.FB_Inst

C14_SlotsStep ==
    \A r \in DOMAIN pc :
        (pc[r] = "generate" /\ pc'[r] = "done" /\ result'[r].success) =>
            LET boards == floorboard_params[r].floorboards_data
            IN  /\ DOMAIN WrittenSlots(r) = 1..20
                /\ \A i \in 1..20 :
                       WrittenSlots(r)[i] =
                           IF i <= Len(boards)
                           THEN [Suppress_Flag |-> 0,
                                 Actual_Width |-> boards[i].width,
                                 Y_Pos_Abs |-> boards[i].y_pos]
                           ELSE [Suppress_Flag |-> 1, Actual_Width |-> 1, Y_Pos_Abs |-> 0]

\* C14: for a plan with n boards the generator writes exactly 20 floorboard
\* instance slots; slot i is unsuppressed with board i's width and position iff
\* i <= n, otherwise suppressed with width 0.0001 and position 0; boards beyond
\* the 20th are not written.
C14_TwentySlots == [][C14_SlotsStep]_vars

\* a file was written for a plan of more than 20 boards
C14_Witness ==
    \E r \in DOMAIN pc :
        /\ pc[r] = "done" /\ result[r].success
        /\ Len(floorboard_params[r].floorboards_data) > 20
        /\ fs[output_filename[r]] # NoFile

\* C15 (as claimed): in every floorboard plan from validated inputs every board
\* of floorboards_data has width > 0, and actual_middle_gap >= 0.
C15_BoardsPositiveAsClaimed ==
    (FloorCalled /\ FloorArgsPassValidation) =>
        /\ \A i \in 1..Len(ret.floorboards_data) : ret.floorboards_data[i].width > 0
        /\ ret.actual_middle_gap >= 0

\* no other run names the output file of run r
OwnFile(r) ==
    /\ output_filename[r] \in Writable
    /\ \A q \in (DOMAIN pc) \ {r} : output_filename[q] # output_filename[r]

\* C16: however the steps of two runs interleave, a finished run has returned
\* what generate_crate_expressions returns when it executes alone on that
\* request, and a run with an output file of its own has left in it what the
\* run alone leaves there (stamped with the time of its own generator call).
C16_Independence ==
    \A r \in DOMAIN pc :
        pc[r] = "done" =>
            LET alone == generate_crate_expressions(variant, inputs[r], output_filename[r], 0)
            IN  /\ result[r] = alone.result
                /\ OwnFile(r) =>
                       IF alone.content = NoFile
                       THEN fs[output_filename[r]] = NoFile
                       ELSE \E now \in 0..MaxClock :
                                fs[output_filename[r]] = [alone.content EXCEPT !.Generated = now]

\* a run on one request finished and wrote its file while a run on another
\* request, with another file, was between its solvers
C16_Witness ==
    \E r, q \in DOMAIN pc :
        /\ r # q
        /\ inputs[r] # inputs[q]
        /\ OwnFile(r) /\ OwnFile(q)
        /\ pc[r] = "done" /\ result[r].success
        /\ pc[q] \in {"floorboard", "panel", "generate"}

\* C17: skid stock is chosen by the first bracket that matches: weight < 500
\* with light stock allowed gives width 2.5 and max spacing 30; otherwise
\* weight < 4500 gives width 3.5 and max spacing 30; 4500 <= weight <= 20000
\* gives width 5.5 and max spacing 24; weight > 20000 gives the same, its
\* callout marked defaulted.  Skid height is 3.5 in every bracket.
C17_SkidSelection ==
    SkidCalled =>
        LET w == args.product_weight_lbs
            light == args.allow_3x4_skids_bool /\ w < In(500, 0)
        IN  /\ ret.actual_height_in = In(3, 5000)
            /\ light =>
                   (ret.actual_width_in = In(2, 5000) /\ ret.max_spacing_rule_in = In(30, 0))
            /\ (~light /\ w < In(4500, 0)) =>
                   (ret.actual_width_in = In(3, 5000) /\ ret.max_spacing_rule_in = In(30, 0))
            /\ (In(4500, 0) <= w /\ w <= In(20000, 0)) =>
                   /\ ret.actual_width_in = In(5, 5000)
                   /\ ret.max_spacing_rule_in = In(24, 0)
                   /\ ret.lumber_callout = "4x6"
            /\ w > In(20000, 0) =>
                   /\ ret.actual_width_in = In(5, 5000)
                   /\ ret.max_spacing_rule_in = In(24, 0)
                   /\ ret.lumber_callout = "4x6 (defaulted)"

\* weight exactly 500 with light stock allowed: no longer the light bracket
C17_Witness ==
    /\ SkidCalled
    /\ args.product_weight_lbs = In(500, 0)
    /\ args.allow_3x4_skids_bool
    /\ ret.actual_width_in = In(3, 5000)

\* count, pitch, first centerline and master origin offset of the multiple-skid case
SkidLayoutFormulas ==
    LET W == crate_outer_width
        span == W - ret.actual_width_in
    IN  /\ ret.count = Max(2, CeilDiv(span, ret.max_spacing_rule_in) + 1)
        /\ ret.pitch_in = Rat(span, ret.count - 1)
        /\ ret.first_pos_x_in = RatNeg(RatDivInt(RatMulInt(ret.pitch_in, ret.count - 1), 2))
        /\ ret.master_origin_offset_in =
               RatSub(ret.first_pos_x_in, Rat(ret.actual_width_in, 2))

\* C18 (as claimed): whenever crate outer width W exceeds the skid width,
\* count = max(2, ceil((W - skid_width)/max_spacing) + 1),
\* pitch = (W - skid_width)/(count - 1), first centerline = -((count-1)*pitch)/2
\* and master origin offset = first centerline - skid_width/2.
C18_AsClaimed ==
    (SkidCalled /\ crate_outer_width > ret.actual_width_in) => SkidLayoutFormulas

\* C18 (amended): the same formulas whenever W exceeds the skid width by more
\* than the tolerance 0.0001 (up to that, the single-skid branch is taken).
C18_Amended ==
    (SkidCalled /\ crate_outer_width > ret.actual_width_in + 1) => SkidLayoutFormulas

\* a crate wide enough for four or more skids
C18_Witness ==
    /\ SkidCalled
    /\ crate_outer_width > ret.actual_width_in + 1
    /\ ret.count >= 4

\* the last board of the plan is the custom board (a standard board is > 0, and
\* center_custom_board_width is set only where the custom board is appended)
CustomBoardPresent ==
    /\ Len(ret.floorboards_data) > 0
    /\ \/ ret.center_custom_board_width # 0
       \/ ret.floorboards_data[Len(ret.floorboards_data)].width <= 0

\* the number of standard boards the greedy fill appended
NumStdBoards ==
    IF CustomBoardPresent THEN Len(ret.floorboards_data) - 1 ELSE Len(ret.floorboards_data)

\* the span still to fill after the first k boards
RemainingAfter(k) == fb_usable_coverage_y_in - SumWidths(SubSeq(ret.floorboards_data, 1, k))

\* the selected widths that fit in span rem with the tolerance 0.001
Fitting(rem) == {w \in Range(args.selected_std_lumber_widths) : w <= rem + 10}

\* every standard board is the largest selected width that fitted at its step
EachBoardLargestFit ==
    \A i \in 1..NumStdBoards :
        /\ ret.floorboards_data[i].width \in Fitting(RemainingAfter(i - 1))
        /\ \A w \in Fitting(RemainingAfter(i - 1)) : w <= ret.floorboards_data[i].width

GreedyFilled ==
    fill_with_standard_lumber(
        sorted_std_lumber_widths_available(args.selected_std_lumber_widths),
        <<>>, 0, fb_usable_coverage_y_in)

LeftoverForceCondition ==
    /\ args.force_small_custom_board_bool
    /\ args.min_forceable_custom_board_width - 10 <= GreedyFilled.y_remaining_for_lumber
    /\ GreedyFilled.y_remaining_for_lumber < args.min_custom_lumber_width_in + 10

LeftoverCustomCondition ==
    GreedyFilled.y_remaining_for_lumber >= args.min_custom_lumber_width_in - 10

LeftoverGapCondition ==
    /\ 10 < GreedyFilled.y_remaining_for_lumber
    /\ GreedyFilled.y_remaining_for_lumber <= args.max_allowable_middle_gap_in + 10

\* the plan ends with a custom board as wide as the leftover, and has no gap
CustomBoardOfLeftover ==
    LET n == Len(GreedyFilled.all_lumber_pieces)
    IN  /\ Len(ret.floorboards_data) = n + 1
        /\ ret.floorboards_data[n + 1].width = GreedyFilled.y_remaining_for_lumber
        /\ ret.center_custom_board_width = GreedyFilled.y_remaining_for_lumber
        /\ ret.actual_middle_gap = 0

\* the plan holds the standard boards only, with the gap given
NoCustomBoardAndGap(gap) ==
    /\ Len(ret.floorboards_data) = Len(GreedyFilled.all_lumber_pieces)
    /\ ret.center_custom_board_width = 0
    /\ ret.actual_middle_gap = gap

\* C20: the leftover of the greedy fill is resolved by strict priority: (a) force
\* flag set and forceable_min - 0.001 <= remaining < min_custom + 0.001: custom
\* board of width remaining; (b) else remaining >= min_custom - 0.001: custom
\* board of width remaining; (c) else 0.001 < remaining <= max_gap + 0.001: a gap
\* of that width and no extra board; (d) else no board and gap 0.  With the
\* force flag set, (a) wins over (c) whenever both conditions hold.
C20_LeftoverPriority ==
    FloorCalled =>
        /\ LeftoverForceCondition => CustomBoardOfLeftover
        /\ (~LeftoverForceCondition /\ LeftoverCustomCondition) => CustomBoardOfLeftover
        /\ (~LeftoverForceCondition /\ ~LeftoverCustomCondition /\ LeftoverGapCondition)
               => NoCustomBoardAndGap(GreedyFilled.y_remaining_for_lumber)
        /\ (~LeftoverForceCondition /\ ~LeftoverCustomCondition /\ ~LeftoverGapCondition)
               => NoCustomBoardAndGap(0)
        /\ (LeftoverForceCondition /\ LeftoverGapCondition) => CustomBoardOfLeftover

\* the force flag set and a leftover that is both a forceable board and a gap
C20_Witness ==
    /\ FloorCalled
    /\ LeftoverForceCondition
    /\ LeftoverGapCondition
    /\ ~LeftoverCustomCondition

\* the boards of the plan beyond those the greedy fill placed: the custom boards
NumCustomBoards == Len(ret.floorboards_data) - Len(GreedyFilled.all_lumber_pieces)

\* C21: in every floorboard plan actual_middle_gap is 0 or lies in
\* (0.001, max_allowable_middle_gap + 0.001], at most one custom board is
\* present, and actual_middle_gap is 0 whenever a custom board is present.
C21_GapAndCustomBoard ==
    FloorCalled =>
        /\ \/ ret.actual_middle_gap = 0
           \/ /\ 10 < ret.actual_middle_gap
              /\ ret.actual_middle_gap <= args.max_allowable_middle_gap_in + 10
        /\ NumCustomBoards \in {0, 1}
        /\ (NumCustomBoards = 1 \/ ret.center_custom_board_width # 0) => ret.actual_middle_gap = 0

\* a forced custom board whose width would also have made an allowed gap
C21_Witness ==
    /\ FloorCalled
    /\ NumCustomBoards = 1
    /\ 10 < ret.center_custom_board_width
    /\ ret.center_custom_board_width <= args.max_allowable_middle_gap_in + 10

\* the gap the layout adds after board i (1-based) of n: the middle gap, once,
\* after the board at 0-based index ceil(n/2) - 1, when no custom board was used
GapAfterBoard(i, n) ==
    IF ret.actual_middle_gap > 0 /\ ret.center_custom_board_width <= 10 /\ i = CeilDiv(n, 2)
    THEN ret.actual_middle_gap
    ELSE 0

\* C22: boards are laid out left to right: the first board's leading edge is at
\* the cap-end offset (panel thickness + cleat thickness), each later board's
\* leading edge is the previous board's leading edge plus its width, and when a
\* gap exists and no custom board was used the gap is added exactly once, right
\* after the board at index ceil(n/2) - 1, n being the number of boards placed.
C22_Layout ==
    FloorCalled =>
        LET boards == ret.floorboards_data
            n == Len(boards)
        IN  /\ n >= 1 => boards[1].y_pos = args.panel_thickness_in + args.cleat_thickness_in
            /\ \A i \in 1..(n - 1) :
                   boards[i + 1].y_pos = boards[i].y_pos + boards[i].width + GapAfterBoard(i, n)

\* an odd number of boards, three or more, with a gap in their middle
C22_Witness ==
    /\ FloorCalled
    /\ ret.actual_middle_gap > 10
    /\ Len(ret.floorboards_data) >= 3
    /\ Len(ret.floorboards_data) % 2 = 1
    /\ ret.floorboards_data[CeilDiv(Len(ret.floorboards_data), 2) + 1].y_pos
           > ret.floorboards_data[CeilDiv(Len(ret.floorboards_data), 2)].y_pos
             + ret.floorboards_data[CeilDiv(Len(ret.floorboards_data), 2)].width

\* floorboard thickness + product height + clearance above the product
PanelHeightBase ==
    args.floorboard_actual_thickness_in + args.product_actual_height_in
    + args.clearance_above_product_in

\* C23 (as claimed): front and back panel height is floorboard thickness +
\* product height + clearance above product, optionally plus (skid height -
\* ground clearance), with no other term; end panel height is that front/back
\* height adjusted by (skid height - ground clearance).
C23_PanelHeightsAsClaimed ==
    PanelCalled =>
        /\ ret.front_calc_height \in
               {PanelHeightBase,
                PanelHeightBase + (args.skid_actual_height_in - args.ground_clearance_in)}
        /\ ret.back_calc_height = ret.front_calc_height
        /\ ret.end_calc_height =
               ret.front_calc_height + (args.skid_actual_height_in - args.ground_clearance_in)

\* a group of two edge cleats of the given length, with the given material
EdgeCleats(len) ==
    [length |-> len,
     material_thickness |-> args.cleat_material_thickness,
     material_member_width |-> args.cleat_material_member_width,
     count |-> 2]

\* max(0, other_axis - 2 * member_width)
SecondaryLength(other_axis) == Max(0, other_axis - 2 * args.cleat_material_member_width)

FaceSheathing == [width |-> args.width, height |-> args.height, thickness |-> args.panel_sheathing_thickness]

\* front and back: the primary cleats run the width, the secondary fit in the height
FrontLikeComponents ==
    [plywood |-> FaceSheathing,
     horizontal_cleats |-> EdgeCleats(args.width),
     vertical_cleats |-> EdgeCleats(SecondaryLength(args.height))]

\* C24: in each panel component calculator (front, back, end, top) the sheathing
\* is the box face at sheathing thickness, the two primary edge cleats are as
\* long as the full box dimension they run along, the two secondary edge cleats
\* have length max(0, other_axis - 2*member_width), both groups have count 2 and
\* the given cleat thickness and member width; back equals front for equal inputs.
C24_ComponentCalculators ==
    (args # None /\ args.fn = "front_panel") =>
        /\ ret.basic # None => ret.basic = FrontLikeComponents
        /\ ret.back_panel # None => ret.back_panel = FrontLikeComponents
        /\ (ret.basic # None /\ ret.back_panel # None) => ret.back_panel = ret.basic
        /\ ret.end_panel # None =>
               ret.end_panel = [plywood |-> FaceSheathing,
                                vertical_cleats |-> EdgeCleats(args.height),
                                horizontal_cleats |-> EdgeCleats(SecondaryLength(args.width))]
        /\ ret.top_panel # None =>
               ret.top_panel = [plywood |-> [width |-> args.width, length |-> args.height,
                                             thickness |-> args.panel_sheathing_thickness],
                                primary_cleats |-> EdgeCleats(args.height),
                                secondary_cleats |-> EdgeCleats(SecondaryLength(args.width))]

\* all four calculators ran on a face too narrow for the end and top panels'
\* secondary cleats but high enough for the front and back panels'
C24_Witness ==
    /\ args # None /\ args.fn = "front_panel"
    /\ ret.basic # None /\ ret.back_panel # None
    /\ ret.end_panel # None /\ ret.top_panel # None
    /\ args.width < 2 * args.cleat_material_member_width
    /\ args.height > 2 * args.cleat_material_member_width

ExtendedCalled == args # None /\ args.fn = "front_panel" /\ ret.extended # None

\* the open spans between the edge cleats of the extended front panel
OpenWidth == args.width - 2 * args.cleat_material_member_width
OpenHeight == args.height - 2 * args.cleat_material_member_width

\* the intermediate cleats reported are count cleats of the given orientation,
\* evenly spaced over open_span
InterCleatsAre(orientation, count, pitch) ==
    /\ ret.extended.inter.inter_cleat_orientation = orientation
    /\ ret.extended.inter.inter_cleat_count = count
    /\ ret.extended.inter.inter_cleat_pitch = pitch

\* open_span/(count + 1) for count = floor(open_span/30) cleats; where that count
\* is 0 there is no cleat to space, and the pitch reported is taken as it is
ClaimedPitch(open_span) ==
    IF open_span \div In(30, 0) > 0
    THEN Rat(open_span, (open_span \div In(30, 0)) + 1)
    ELSE ret.extended.inter.inter_cleat_pitch

\* C25 (as claimed): when the open span on an axis is >= 24 (width checked
\* first) the number of intermediate cleats is floor(open_span/30) and their
\* pitch is open_span/(count + 1), the orientation being that of the axis; when
\* no axis reaches 24 the count is 0, the pitch 0 and the orientation NONE.
C25_InterCleatsAsClaimed ==
    ExtendedCalled =>
        IF OpenWidth >= In(24, 0)
        THEN InterCleatsAre("VERTICAL", OpenWidth \div In(30, 0), ClaimedPitch(OpenWidth))
        ELSE IF OpenHeight >= In(24, 0)
        THEN InterCleatsAre("HORIZONTAL", OpenHeight \div In(30, 0), ClaimedPitch(OpenHeight))
        ELSE InterCleatsAre("NONE", 0, RatInt(0))

\* floor((open_span - 0.000001)/30): 30 * count < open_span <= 30 * (count + 1)
CountBelow(open_span) == CeilDiv(open_span, In(30, 0)) - 1

\* the pitch open_span/(count + 1), and 0 when there is no intermediate cleat
PitchFor(open_span) ==
    IF CountBelow(open_span) > 0 THEN Rat(open_span, CountBelow(open_span) + 1) ELSE RatInt(0)

\* C25 (amended): the count is floor((open_span - 0.000001)/30), one fewer than
\* floor(open_span/30) at exact multiples of 30, and the pitch is
\* open_span/(count + 1) when the count is > 0 and 0 otherwise; the orientation
\* is VERTICAL when the open width is >= 24, else HORIZONTAL when the open
\* height is >= 24, else NONE (with count 0 and pitch 0).
C25_InterCleatsAmended ==
    ExtendedCalled =>
        IF OpenWidth >= In(24, 0)
        THEN InterCleatsAre("VERTICAL", CountBelow(OpenWidth), PitchFor(OpenWidth))
        ELSE IF OpenHeight >= In(24, 0)
        THEN InterCleatsAre("HORIZONTAL", CountBelow(OpenHeight), PitchFor(OpenHeight))
        ELSE InterCleatsAre("NONE", 0, RatInt(0))

\* an open width of exactly 60: one intermediate cleat, at pitch 30
C25_Witness ==
    /\ ExtendedCalled
    /\ OpenWidth = In(60, 0)
    /\ ret.extended.inter.inter_cleat_count = 1

\* C26: whenever calculate_skid_parameters returns count >= 2, the pitch is > 0
\* and does not exceed the max spacing rule of the selected bracket (30 or 24).
C26_PitchWithinSpacing ==
    (SkidCalled /\ ret.count >= 2) =>
        /\ ret.max_spacing_rule_in \in {In(30, 0), In(24, 0)}
        /\ RatLT(RatInt(0), ret.pitch_in)
        /\ RatLE(ret.pitch_in, RatInt(ret.max_spacing_rule_in))

\* three or more skids of the heavy bracket, spaced at exactly the 24 inch rule
C26_Witness ==
    /\ SkidCalled
    /\ ret.count >= 3
    /\ ret.max_spacing_rule_in = In(24, 0)
    /\ ret.pitch_in = RatInt(In(24, 0))

\* outer edge of the last skid: first_pos_x + (count - 1)*pitch + skid_width/2
LastSkidOuterEdge ==
    RatAdd(RatAdd(ret.first_pos_x_in, RatMulInt(ret.pitch_in, ret.count - 1)),
           Rat(ret.actual_width_in, 2))

\* skid i (0-based) lies within [-W/2, +W/2]
SkidWithinCrate(i) ==
    LET center == RatAdd(ret.first_pos_x_in, RatMulInt(ret.pitch_in, i))
        half == Rat(ret.actual_width_in, 2)
    IN  /\ RatLE(Rat(-crate_outer_width, 2), RatSub(center, half))
        /\ RatLE(RatAdd(center, half), Rat(crate_outer_width, 2))

C28_FillTerminates == <>(ret.at = "return")

\* every width of the list is zero, negative, or a whole number of ten-thousandths
ResolvableWidths ==
    \A i \in DOMAIN args.selected_std_lumber_widths :
        args.selected_std_lumber_widths[i].t = 0

\* the loop does terminate, and the return is reached, when no width of the list
\* is below the resolution of the span
FillTerminatesResolvable == ResolvableWidths => <>(ret.at = "return")

\* trailing edge of the last board of the plan
LastTrailingEdge ==
    LET boards == ret.floorboards_data
    IN  boards[Len(boards)].y_pos + boards[Len(boards)].width

\* C29: in every floorboard plan from validated inputs, board leading-edge
\* positions are strictly increasing and boards do not overlap (each position >=
\* previous position + previous width), and the trailing edge of the last board
\* does not exceed cap-end offset + usable span + 0.001.
C29_BoardsInOrderWithinSpan ==
    (FloorCalled /\ FloorArgsPassValidation) =>
        LET boards == ret.floorboards_data
            n == Len(boards)
        IN  /\ \A i \in 1..(n - 1) :
                   /\ boards[i + 1].y_pos > boards[i].y_pos
                   /\ boards[i + 1].y_pos >= boards[i].y_pos + boards[i].width
            /\ n >= 1 =>
                   LastTrailingEdge <= ret.initial_start_y_offset_abs
                                       + fb_usable_coverage_y_in + 10

\* a plan of three or more boards from validated inputs whose last board ends
\* past the usable span, within the tolerance
C29_Witness ==
    /\ FloorCalled /\ FloorArgsPassValidation
    /\ Len(ret.floorboards_data) >= 3
    /\ LastTrailingEdge > ret.initial_start_y_offset_abs + fb_usable_coverage_y_in

\* the positions of a run inside generate_crate_expressions; "done" is its return
OrchestratorPositions == {"validate", "skid", "floorboard", "panel", "generate", "done"}

\* run r has returned a (success, message) pair
ReturnedPair(r) ==
    /\ DOMAIN result[r] = {"success", "message"}
    /\ result[r].success \in BOOLEAN

\* the expressions file of run r was written by run r's own generator call
FileWritten(r) ==
    /\ "generate_nx_expressions_file" \in Range(calls[r])
    /\ output_filename[r] \in DOMAIN fs
    /\ fs[output_filename[r]] # NoFile

\* C30: generate_crate_expressions never raises: for every input dictionary,
\* including one missing a required key (also a key validate_inputs does not look
\* up, such as allow_3x4_skids_bool) or one whose output file cannot be written,
\* it returns a (success, message) pair, and success is True only when the
\* expressions file was written.
C30_NeverRaises ==
    \A r \in DOMAIN pc :
        /\ pc[r] \in OrchestratorPositions
        /\ pc[r] = "done" =>
               /\ ReturnedPair(r)
               /\ result[r].success => FileWritten(r)
        /\ pc[r] # "done" => result[r] = None

\* one run on a request without allow_3x4_skids_bool and one run whose file
\* could not be written have both returned, each with success False
C30_Witness ==
    \E r1, r2 \in DOMAIN pc :
        /\ pc[r1] = "done" /\ pc[r2] = "done"
        /\ "allow_3x4_skids_bool" \notin DOMAIN inputs[r1]
        /\ FirstMissing(ValidatedKeys, inputs[r1]) = ""
        /\ ~result[r1].success
        /\ output_filename[r2] \notin Writable
        /\ "generate_nx_expressions_file" \in Range(calls[r2])
        /\ ~result[r2].success

=============================================================================
